---- MODULE Spec2Model ----
(***************************************************************************)
(* Model of the RISC-V External Debug Support 0.13 driver of Black Magic   *)
(* Debug: src/unnamed/part_002 (rvdbg.c followed by rvdbg_jtag.c) with the *)
(* declarations of src/unnamed/part_001 (rvdbg.h).                         *)
(*                                                                         *)
(* Layer L2 (the DMI low-access primitive, dmi_read, dmi_write) is         *)
(* modelled scan by scan against a JTAG DTM, specification SpecDmi.        *)
(* Layers L3/L4 (abstract commands, register access, program buffer) are   *)
(* modelled as operators over a Debug Module record, one DMI access at a   *)
(* time, with the target's choices drawn from a script, specifications     *)
(* SpecAbs, SpecRegs, SpecProgbuf and SpecUpload.                          *)
(*                                                                         *)
(* Machine words: TLC's integers are 32-bit signed, so a 64-bit DMI scan   *)
(* word is kept as the record of its wire fields [addr, data, op]          *)
(* (bits 63:34, 33:2 and 1:0), and 32-bit data words are drawn from        *)
(* 0 .. 2^31-1.                                                            *)
(***************************************************************************)
EXTENDS Integers, Sequences, FiniteSets, TLC

VARIABLES
    dmi,        \* RVDBGv013_DMI_t: the handle's fields
    last_dmi,   \* RVDBGv013_JTAG_t.last_dmi
    tap,        \* the TAP / DTM of the target, as the adapter sees it
    dm,         \* the Debug Module of the target
    pc,         \* position of the running call
    call,       \* arguments and locals of the running call
    ret,        \* what the last returned call returned
    trace,      \* adapter / DMI operations issued, in order
    ghost       \* bookkeeping of the requests handed to the engine

vars == <<dmi, last_dmi, tap, dm, pc, call, ret, trace, ghost>>

Null == "null"

(***************************************************************************)
(* Program constants.                                                      *)
(***************************************************************************)
IR_DTMCS == 16
IR_DMI == 17
DMI_OP_NOP == 0
DMI_OP_READ == 1
DMI_OP_WRITE == 2
DMISTAT_NO_ERROR == 0
DMISTAT_RESERVED == 1
DMISTAT_OP_FAILED == 2
DMISTAT_OP_INTERRUPTED == 3
DTMCS_DMIRESET == 65536
DTMCS_DMIHARDRESET == 131072
DMI_REG_ABSTRACTDATA_BEGIN == 4
DMI_REG_DMCONTROL == 16
DMI_REG_DMSTATUS == 17
DMI_REG_ABSTRACT_CS == 22
DMI_REG_ABSTRACT_CMD == 23
DMI_REG_ABSTRACT_AUTOEXEC == 24
DMI_REG_NEXTDM_ADDR == 29
DMI_REG_PROGRAMBUF_BEGIN == 32

Pow2_30 == 1073741824

(***************************************************************************)
(* Bounds of the model.                                                    *)
(***************************************************************************)
MaxCalls == 2       \* dmi_read / dmi_write calls issued in one behaviour
MaxIntr == 2        \* interrupted responses the target gives within one access

(***************************************************************************)
(* L2: DMI scan words.                                                     *)
(***************************************************************************)
\* A 64-bit scan word as its wire fields: addr = bits 63:34, data = bits 33:2,
\* op = bits 1:0.
DmiWord(addr, data, op) == [addr |-> addr, data |-> data, op |-> op]

\* Mutant: the two status bits are read complemented.
DMI_GET_OP_Complemented(x) == 3 - x.op

\* DMI_GET_OP(x) == (x & 0x3)
DMI_GET_OP(x) == x.op

\* Mutant: the response word is stored without the shift.
DmiDataOut_NoShift(x) == (x.data * 4 + x.op) % Pow2_30

\* (dmi_ret >> 2) stored into a uint32_t: bits 33:2
DmiDataOut(x) == x.data

\* The 64-bit zero word (calloc, DMI_OP_NOP).
DmiZero == DmiWord(0, 0, 0)

\* ((uint64_t)addr << 34) | (data << 2) | DMI_OP_WRITE.  (data << 2) is a
\* uint32_t expression: bits 31:30 of data are shifted out before the OR, so
\* bits 33:2 of the word hold data mod 2^30.
WritePayload(addr, data) == DmiWord(addr, data % Pow2_30, DMI_OP_WRITE)

\* ((uint64_t)addr << 34) | DMI_OP_READ
ReadPayload(addr) == DmiWord(addr, 0, DMI_OP_READ)

\* DMI_OP_NOP
NopPayload == DmiWord(0, 0, DMI_OP_NOP)

(***************************************************************************)
(* Field extraction, as the source's macros do it with shifts and masks.   *)
(***************************************************************************)
Pow2(n) == 2 ^ n

\* (x >> lo) & (2^width - 1)
Bits(x, lo, width) == (x \div Pow2(lo)) % Pow2(width)

\* x & ~m for 3-bit values (write-one-to-clear of the cmderr field)
AndNot3(x, m) ==
    LET b(v, i) == (v \div Pow2(i)) % 2
    IN  (IF b(x, 0) = 1 /\ b(m, 0) = 0 THEN 1 ELSE 0)
      + (IF b(x, 1) = 1 /\ b(m, 1) = 0 THEN 2 ELSE 0)
      + (IF b(x, 2) = 1 /\ b(m, 2) = 0 THEN 4 ELSE 0)

\* x & m for 12-bit values (the implemented bits of abstractauto.autoexecdata)
RECURSIVE AndBits(_, _, _)
AndBits(x, m, n) ==
    IF n = 0 THEN 0
    ELSE (IF x % 2 = 1 /\ m % 2 = 1 THEN 1 ELSE 0)
         + 2 * AndBits(x \div 2, m \div 2, n - 1)

ABSTRACTCMD_ERR_NONE == 0
ABSTRACTCMD_ERR_BUSY == 1
ABSTRACTCMD_ERR_NOT_SUPPORTED == 2
ABSTRACTCMD_ERR_EXCEPTION == 3
ABSTRACTCMD_ERR_HALT_RESUME == 4
ABSTRACTCMD_ERR_BUS == 5
ABSTRACTCMD_ERR_OTHER == 7

\* enum ABSTRACTCMD_ERR: the cmderr values a Debug Module reports
CmdErrs == {ABSTRACTCMD_ERR_NONE, ABSTRACTCMD_ERR_BUSY, ABSTRACTCMD_ERR_NOT_SUPPORTED,
            ABSTRACTCMD_ERR_EXCEPTION, ABSTRACTCMD_ERR_HALT_RESUME,
            ABSTRACTCMD_ERR_BUS, ABSTRACTCMD_ERR_OTHER}

ABSTRACTCMD_TYPE_ACCESS_REGISTER == 0
BUS_ACCESS_32 == 2
HART_REG_GPR_BEGIN == 4096
ABSTRACTAUTO_SOME_PATTEN == 2730

\* #define ABSTRACTCS_GET_DATACOUNT(x) (x & 0xf) and its neighbours
ABSTRACTCS_GET_DATACOUNT(x) == Bits(x, 0, 4)
ABSTRACTCS_GET_CMDERR(x) == Bits(x, 8, 3)
\* Mutant: the busy flag is taken from bit 11, which the Debug Module never sets.
ABSTRACTCS_GET_BUSY_Bit11(x) == Bits(x, 11, 1)
ABSTRACTCS_GET_BUSY(x) == Bits(x, 12, 1)
ABSTRACTCS_GET_PROGBUFSIZE(x) == Bits(x, 24, 5)

\* ABSTRACTCS_CLEAR_CMDERR(t): t |= (0x7 << 8), applied to t = 0
ABSTRACTCS_CLEAR_CMDERR == 7 * Pow2(8)

\* ABSTRACTAUTO_GET_DATA(x) (x & 0xfff); ABSTRACTAUTO_SET_DATA on t = 0
ABSTRACTAUTO_GET_DATA(x) == Bits(x, 0, 12)
ABSTRACTAUTO_SET_DATA(s) == Bits(s, 0, 12)

\* The abstract command word built by the ABSTRACTCMD_..._SET_ macros on
\* command = 0: cmdtype[31:24], aarsize[22:20], aarpostincrement[19],
\* postexec[18], transfer[17], write[16], regno[15:0].
AccessRegisterCmd(aarsize, postinc, postexec, transfer, write, regno) ==
      Bits(ABSTRACTCMD_TYPE_ACCESS_REGISTER, 0, 8) * Pow2(24)
    + Bits(aarsize, 0, 3) * Pow2(20)
    + Bits(postinc, 0, 1) * Pow2(19)
    + Bits(postexec, 0, 1) * Pow2(18)
    + Bits(transfer, 0, 1) * Pow2(17)
    + Bits(write, 0, 1) * Pow2(16)
    + Bits(regno, 0, 16)

(***************************************************************************)
(* The Debug Module of the target (RISC-V External Debug Support 0.13):    *)
(* the registers the driver reaches over DMI and what an access does.      *)
(*   data0        abstract data word 0 (0x04)                              *)
(*   command      the word last accepted in abstractcmd (0x17)             *)
(*   cmderr, busy abstractcs fields; busy counts the abstractcs reads that *)
(*                still answer busy = 1                                    *)
(*   autoexecdata abstractauto[11:0]; automask its implemented bits        *)
(*   regs         the selected hart's registers, by abstract regno         *)
(*   progbuf      program buffer words                                     *)
(*   script       the target's outcome for each coming command execution:  *)
(*                [busy |-> polls answered busy, err |-> cmderr raised]    *)
(*   dmifail      DMI accesses still answered without error before one is  *)
(*                answered op-failed; -1: none fails                       *)
(*   log          the DMI accesses of the running operation, in order      *)
(*   nexec        abstract command executions started                      *)
(*   autoexecprogbuf  abstractauto bit 16, implemented with a program buffer*)
(*   hartsel      dmcontrol.hartsel (hartsello and hartselhi as one number);*)
(*                hartselmask its implemented bits                         *)
(*   nharts       the harts 0 .. nharts-1 exist                            *)
(*   version, authenticated, impebreak, confstrptrvalid  dmstatus fields   *)
(*   nextdm       the nextdm register                                      *)
(***************************************************************************)
NumGpr == 3                     \* GPRs x1..x[NumGpr] of the hart are tracked
HART_REG_CSR_MISA == 769
RegNos == {HART_REG_CSR_MISA} \cup (HART_REG_GPR_BEGIN + 1 .. HART_REG_GPR_BEGIN + NumGpr)

\* csrrs rd, csr, rs1 as an instruction word (csr < 0x400 keeps it below 2^30)
RV32I_ISA_CSRRS(rd, csr, rs1) ==
    csr * Pow2(20) + rs1 * Pow2(15) + 2 * Pow2(12) + rd * Pow2(7) + 115
RV32I_EBREAK == 1048691

\* x & m for 20-bit values is AndBits(x, m, 20); the hartsel value held in a
\* dmcontrol word: hartsello = bits 25:16, hartselhi = bits 15:6.
DmHartselOf(data) == Bits(data, 16, 10) + Bits(data, 6, 10) * Pow2(10)

DmDmcontrol(d) == Bits(d.hartsel, 0, 10) * Pow2(16) + Bits(d.hartsel, 10, 10) * Pow2(6)

\* A Debug Module with dmactivegate holds hartsel at its reset value while
\* dmcontrol.dmactive (bit 0) is written as 0; one without accepts hartsel in
\* the same write.
\* dmstatus: version[3:0], confstrptrvalid[4], authenticated[7],
\* anynonexistent[14] (the selected hart does not exist), impebreak[22].
DmDmstatus(d) ==
      d.version
    + (IF d.confstrptrvalid THEN 1 ELSE 0) * Pow2(4)
    + (IF d.authenticated THEN 1 ELSE 0) * Pow2(7)
    + (IF d.hartsel >= d.nharts THEN 1 ELSE 0) * Pow2(14)
    + (IF d.impebreak THEN 1 ELSE 0) * Pow2(22)

DmAbstractcs(d) ==
      d.datacount
    + d.cmderr * Pow2(8)
    + (IF d.busy > 0 THEN 1 ELSE 0) * Pow2(12)
    + d.progbufsize * Pow2(24)

\* What running the program buffer does to the hart's registers.
DmRunProgbuf(d) ==
    LET w == d.progbuf[0]
        rd == Bits(w, 7, 5)
        csr == Bits(w, 20, 12)
    IN  IF Bits(w, 0, 7) = 115 /\ Bits(w, 12, 3) = 2
           /\ (HART_REG_GPR_BEGIN + rd) \in RegNos /\ csr \in RegNos
        THEN [d EXCEPT !.regs[HART_REG_GPR_BEGIN + rd] = d.regs[csr]]
        ELSE d

\* One execution of the abstract command held in abstractcmd.
DmExec(d) ==
    LET step == IF d.script = <<>> THEN [busy |-> 0, err |-> ABSTRACTCMD_ERR_NONE]
                ELSE Head(d.script)
        rest == IF d.script = <<>> THEN <<>> ELSE Tail(d.script)
        d0 == [d EXCEPT !.script = rest, !.busy = step.busy, !.nexec = @ + 1]
        cmd == d.command
        regno == Bits(cmd, 0, 16)
        write == Bits(cmd, 16, 1)
        transfer == Bits(cmd, 17, 1)
        postexec == Bits(cmd, 18, 1)
        postinc == Bits(cmd, 19, 1)
        exists == regno = HART_REG_GPR_BEGIN \/ regno \in RegNos
        d1 == IF transfer = 0 THEN d0
              ELSE IF write = 1
                   THEN IF regno = HART_REG_GPR_BEGIN THEN d0
                        ELSE [d0 EXCEPT !.regs[regno] = d0.data0]
                   ELSE [d0 EXCEPT !.data0 =
                            IF regno = HART_REG_GPR_BEGIN THEN 0 ELSE d0.regs[regno]]
        d2 == IF postinc = 1 /\ transfer = 1
              THEN [d1 EXCEPT !.command = cmd - regno + ((regno + 1) % Pow2(16))]
              ELSE d1
        d3 == IF postexec = 1 THEN DmRunProgbuf(d2) ELSE d2
    IN  IF step.err # ABSTRACTCMD_ERR_NONE THEN [d0 EXCEPT !.cmderr = step.err]
        ELSE IF Bits(cmd, 24, 8) # ABSTRACTCMD_TYPE_ACCESS_REGISTER
             THEN [d0 EXCEPT !.cmderr = ABSTRACTCMD_ERR_NOT_SUPPORTED]
        ELSE IF transfer = 1 /\ ~exists
             THEN [d0 EXCEPT !.cmderr = ABSTRACTCMD_ERR_EXCEPTION]
        ELSE d3

\* An access to data0 re-executes the command when autoexecdata bit 0 is set.
DmAutoexec(d) ==
    IF d.autoexecdata % 2 = 1 /\ d.cmderr = ABSTRACTCMD_ERR_NONE THEN DmExec(d) ELSE d

\* A DMI write as the Debug Module applies it.
DmWrite(d, addr, data) ==
    IF addr = DMI_REG_ABSTRACTDATA_BEGIN THEN
        IF d.busy > 0
        THEN [d EXCEPT !.cmderr = IF @ = 0 THEN ABSTRACTCMD_ERR_BUSY ELSE @]
        ELSE DmAutoexec([d EXCEPT !.data0 = data])
    ELSE IF addr = DMI_REG_ABSTRACT_CMD THEN
        IF d.cmderr # ABSTRACTCMD_ERR_NONE THEN d
        ELSE IF d.busy > 0 THEN [d EXCEPT !.cmderr = ABSTRACTCMD_ERR_BUSY]
        ELSE DmExec([d EXCEPT !.command = data])
    ELSE IF addr = DMI_REG_ABSTRACT_CS THEN
        [d EXCEPT !.cmderr = AndNot3(@, Bits(data, 8, 3))]
    ELSE IF addr = DMI_REG_ABSTRACT_AUTOEXEC THEN
        IF d.busy > 0
        THEN [d EXCEPT !.cmderr = IF @ = 0 THEN ABSTRACTCMD_ERR_BUSY ELSE @]
        ELSE [d EXCEPT !.autoexecdata = AndBits(Bits(data, 0, 12), d.automask, 12),
                       !.autoexecprogbuf = IF Bits(data, 16, 1) = 1 /\ d.progbufsize > 0
                                           THEN 1 ELSE 0]
    ELSE IF addr >= DMI_REG_PROGRAMBUF_BEGIN /\ addr < DMI_REG_PROGRAMBUF_BEGIN + 16 THEN
        IF addr - DMI_REG_PROGRAMBUF_BEGIN < d.progbufsize
        THEN [d EXCEPT !.progbuf[addr - DMI_REG_PROGRAMBUF_BEGIN] = data]
        ELSE d
    ELSE IF addr = DMI_REG_DMCONTROL THEN
        [d EXCEPT !.hartsel = IF d.dmactivegate /\ Bits(data, 0, 1) = 0 THEN 0
                              ELSE AndBits(DmHartselOf(data), d.hartselmask, 20)]
    ELSE d

\* The value a DMI read returns.
DmReadValue(d, addr) ==
    IF addr = DMI_REG_ABSTRACTDATA_BEGIN THEN d.data0
    ELSE IF addr = DMI_REG_ABSTRACT_CS THEN DmAbstractcs(d)
    ELSE IF addr = DMI_REG_ABSTRACT_CMD THEN d.command
    ELSE IF addr = DMI_REG_ABSTRACT_AUTOEXEC
         THEN d.autoexecdata + d.autoexecprogbuf * Pow2(16)
    ELSE IF addr = DMI_REG_DMCONTROL THEN DmDmcontrol(d)
    ELSE IF addr = DMI_REG_DMSTATUS THEN DmDmstatus(d)
    ELSE IF addr = DMI_REG_NEXTDM_ADDR THEN d.nextdm
    ELSE 0

\* The side effect of a DMI read on the Debug Module.
DmReadEffect(d, addr) ==
    IF addr = DMI_REG_ABSTRACTDATA_BEGIN THEN
        IF d.busy > 0
        THEN [d EXCEPT !.cmderr = IF @ = 0 THEN ABSTRACTCMD_ERR_BUSY ELSE @]
        ELSE DmAutoexec(d)
    ELSE IF addr = DMI_REG_ABSTRACT_CS THEN
        [d EXCEPT !.busy = IF @ > 0 THEN @ - 1 ELSE 0]
    ELSE d

(***************************************************************************)
(* The JTAG DTM of the target, as the adapter drives it.                   *)
(*   ir        the TAP instruction register                                *)
(*   sticky    the DTM's sticky dmi status: 0, or the error reported in op *)
(*             until dmireset (2 failed, 3 a request came while one was    *)
(*             in progress; 1 reserved)                                    *)
(*   inflight  the DMI request in progress at the Debug Module, if any     *)
(*   rdata     the data of the last completed request                      *)
(* A DR scan of dmi captures the status and data, then starts the request  *)
(* scanned in unless the status is an error, in which case the scanned     *)
(* request is ignored.                                                     *)
(***************************************************************************)
TapStatus(t) ==
    IF t.ir # IR_DMI THEN DMISTAT_RESERVED   \* dtmcs is scanned: version[1:0] = 1
    ELSE IF t.sticky # 0 THEN t.sticky
    ELSE IF t.inflight # <<>> THEN DMISTAT_OP_INTERRUPTED
    ELSE DMISTAT_NO_ERROR

\* The word captured (shifted out) by a DR scan.
TapCapture(t) == DmiWord(0, IF TapStatus(t) = DMISTAT_NO_ERROR THEN t.rdata ELSE 0, TapStatus(t))

\* The DTM after a DR scan of abits + 34 bits shifting in `word`.
TapUpdate(t, word, tag, abits) ==
    IF t.ir # IR_DMI THEN t
    ELSE IF TapStatus(t) # DMISTAT_NO_ERROR THEN [t EXCEPT !.sticky = TapStatus(t)]
    ELSE IF word.op = DMI_OP_NOP THEN t
    ELSE [t EXCEPT !.inflight =
            << [word |-> [word EXCEPT !.addr = @ % Pow2(abits)], tag |-> tag] >>]

\* The DTM after the adapter operations `ops` that are no dmi scan:
\* <<"ir", v>> jtag_dev_write_ir; <<"dr32", v>> a 32-bit DR scan (dtmcs when
\* ir = IR_DTMCS); <<"tms", v, n>> jtagtap_tms_seq.
RECURSIVE TapRun(_, _)
TapRun(t, ops) ==
    IF ops = <<>> THEN t
    ELSE LET o == Head(ops)
             t1 == IF o[1] = "ir" THEN [t EXCEPT !.ir = o[2]]
                   ELSE IF o[1] = "dr32" /\ t.ir = IR_DTMCS
                        THEN IF Bits(o[2], 17, 1) = 1
                             THEN [t EXCEPT !.sticky = 0, !.inflight = <<>>]
                             ELSE IF Bits(o[2], 16, 1) = 1
                                  THEN [t EXCEPT !.sticky = 0]
                                  ELSE t
                        ELSE t
         IN  TapRun(t1, Tail(ops))

(***************************************************************************)
(* L2: rvdbg_dmi_reset_jtag, rvdbg_dmi_low_access_jtag, rvdbg_dmi_write,    *)
(* rvdbg_dmi_read, one adapter scan per step.                              *)
(***************************************************************************)
DMI_BASE_BIT_COUNT == 34

\* Mutant: the reset leaves the TAP on IR_DTMCS.
rvdbg_dmi_reset_jtag_NoIrRestore(hard_reset) ==
    << <<"ir", IR_DTMCS>>,
       <<"dr32", IF hard_reset THEN DTMCS_DMIHARDRESET ELSE DTMCS_DMIRESET>> >>

\* The adapter operations of rvdbg_dmi_reset_jtag(dmi, hard_reset).
rvdbg_dmi_reset_jtag(hard_reset) ==
    << <<"ir", IR_DTMCS>>,
       <<"dr32", IF hard_reset THEN DTMCS_DMIHARDRESET ELSE DTMCS_DMIRESET>>,
       <<"ir", IR_DMI>> >>

\* The event of one dmi scan: jtag_dev_shift_dr(dev, &dmi_ret, &word, 34 + abits).
DmiScan(word) == <<"dmi", DMI_BASE_BIT_COUNT + dmi.abits, word>>

\* if (dmi->idle >= 2) jtagtap_tms_seq(0, dmi->idle - 1);
IdleCycles == IF dmi.idle >= 2 THEN << <<"tms", 0, dmi.idle - 1>> >> ELSE <<>>

\* The value of a caller's output word that no call has stored to yet.
Unset == -1

NoRet == [valid |-> FALSE, rv |-> 0, cmd |-> DmiZero, resp |-> 0,
          fn |-> "none", done |-> FALSE, out |-> Unset, trace |-> <<>>]

\* Entry of rvdbg_dmi_low_access_jtag(dmi, dmi_data_out, dmi_cmd).
LowAccessEnter(fn, out, cmd, tag, addr) ==
    /\ call' = [fn |-> fn, phase |-> 1, dmi_data_out |-> out, dmi_cmd |-> cmd,
                orig |-> cmd, tag |-> tag, addr |-> addr, nintr |-> 0,
                data |-> Unset]
    /\ pc' = "retry"
    /\ trace' = <<>>
    /\ ret' = NoRet

\* Addresses and data words the callers of this model pass.
DmiAddrs == {DMI_REG_ABSTRACTDATA_BEGIN, DMI_REG_ABSTRACT_AUTOEXEC}
DmiData == {1, Pow2_30 + 2}

\* static int rvdbg_dmi_write(dmi, addr, data)
CallDmiWrite ==
    /\ pc = "idle"
    /\ ghost.ncalls < MaxCalls
    /\ \E addr \in DmiAddrs, data \in DmiData :
         LowAccessEnter("write", FALSE, WritePayload(addr, data), ghost.ncalls + 1, addr)
    /\ ghost' = [ghost EXCEPT !.ncalls = @ + 1]
    /\ UNCHANGED <<dmi, last_dmi, tap, dm>>

\* static int rvdbg_dmi_read(dmi, addr, data): the first low access (READ)
CallDmiRead ==
    /\ pc = "idle"
    /\ ghost.ncalls < MaxCalls
    /\ \E addr \in DmiAddrs :
         LowAccessEnter("read", FALSE, ReadPayload(addr), ghost.ncalls + 1, addr)
    /\ ghost' = [ghost EXCEPT !.ncalls = @ + 1]
    /\ UNCHANGED <<dmi, last_dmi, tap, dm>>

\* Return of the low access with value rv after the response resp; tr is the
\* adapter trace of the access.  A dmi_read whose READ access returned 0 goes on
\* with: return dmi->rvdbg_dmi_low_access(dmi, data, DMI_OP_NOP);
LowAccessReturn(rv, resp, tr) ==
    LET out == IF rv = 0 /\ call.dmi_data_out THEN DmiDataOut(resp) ELSE call.data
        low == [valid |-> TRUE, rv |-> rv, cmd |-> call.orig, resp |-> DMI_GET_OP(resp),
                fn |-> call.fn, out |-> out, trace |-> tr]
    IN  IF call.fn = "read" /\ call.phase = 1 /\ rv = 0
        THEN /\ ret' = low @@ [done |-> FALSE]
             /\ call' = [call EXCEPT !.phase = 2, !.dmi_data_out = TRUE,
                                     !.dmi_cmd = NopPayload, !.orig = NopPayload,
                                     !.tag = 0, !.nintr = 0]
             /\ pc' = "retry"
             /\ trace' = <<>>
        ELSE /\ ret' = low @@ [done |-> TRUE]
             /\ call' = [call EXCEPT !.data = out]
             /\ pc' = "idle"
             /\ trace' = tr

\* Mutant: an interrupted response is treated as a failure.
DmiSwitch_IntrFails(op) ==
    IF op = DMISTAT_NO_ERROR THEN "ok" ELSE "fail"

\* switch (DMI_GET_OP(dmi_ret)): which arm is taken
DmiSwitch(op) ==
    IF op = DMISTAT_OP_INTERRUPTED THEN "intr"
    ELSE IF op = DMISTAT_NO_ERROR THEN "ok"
    ELSE "fail"

\* Mutant: the no-error arm leaves last_dmi as it was.
StoreLastDmi_Stale(dmi_cmd) == last_dmi

\* case DMISTAT_NO_ERROR: rvdbg_jtag->last_dmi = dmi_cmd;
StoreLastDmi(dmi_cmd) == dmi_cmd

\* Mutant: the current request is shifted again instead.
ReplayWord_CurrentRequest == call.dmi_cmd

\* The word re-shifted on an interrupted response: &rvdbg_jtag->last_dmi
ReplayWord == last_dmi

\* retry: jtag_dev_shift_dr(dev, &dmi_ret, &dmi_cmd, 34 + abits);
\*        switch (DMI_GET_OP(dmi_ret)) { ... }
LowAccessShift ==
    /\ pc = "retry"
    /\ LET dmi_ret == TapCapture(tap)
           t1 == TapUpdate(tap, call.dmi_cmd, call.tag, dmi.abits)
           arm == DmiSwitch(DMI_GET_OP(dmi_ret))
           tr == Append(trace, DmiScan(call.dmi_cmd))
       IN  /\ arm = "intr" => call.nintr < MaxIntr
           /\ IF arm = "intr" THEN
                 /\ tap' = t1
                 /\ trace' = tr
                 /\ pc' = "intr"
                 /\ call' = [call EXCEPT !.nintr = @ + 1]
                 /\ UNCHANGED <<last_dmi, ret, ghost>>
              ELSE IF arm = "ok" THEN
                 /\ tap' = t1
                 /\ last_dmi' = StoreLastDmi(call.dmi_cmd)
                 /\ ghost' = [ghost EXCEPT !.last_tag = call.tag,
                                            !.acked = IF call.fn = "write"
                                                      THEN @ \cup {call.tag} ELSE @]
                 /\ LowAccessReturn(0, dmi_ret, tr)
              ELSE
                 /\ tap' = TapRun(t1, rvdbg_dmi_reset_jtag(FALSE))
                 /\ LowAccessReturn(-1, dmi_ret, tr \o rvdbg_dmi_reset_jtag(FALSE))
                 /\ UNCHANGED <<last_dmi, ghost>>
    /\ UNCHANGED <<dmi, dm>>

\* case DMISTAT_OP_INTERRUPTED: rvdbg_dmi_reset_jtag(dmi, false);
LowAccessIntrReset ==
    /\ pc = "intr"
    /\ tap' = TapRun(tap, rvdbg_dmi_reset_jtag(FALSE))
    /\ trace' = trace \o rvdbg_dmi_reset_jtag(FALSE)
    /\ pc' = "replay"
    /\ UNCHANGED <<dmi, last_dmi, dm, call, ret, ghost>>

\* jtag_dev_shift_dr(dev, &dmi_ret, &rvdbg_jtag->last_dmi, 34 + abits);
\* if (dmi->idle >= 2) jtagtap_tms_seq(0, dmi->idle - 1); goto retry;
LowAccessReplay ==
    /\ pc = "replay"
    /\ tap' = TapRun(TapUpdate(tap, ReplayWord, ghost.last_tag, dmi.abits), IdleCycles)
    /\ trace' = Append(trace, DmiScan(ReplayWord)) \o IdleCycles
    /\ pc' = "retry"
    /\ UNCHANGED <<dmi, last_dmi, dm, call, ret, ghost>>

\* The Debug Module completes the request in progress: it applies it, or it
\* fails and the DTM reports op-failed (or the reserved status) from then on.
DmComplete ==
    /\ tap.inflight # <<>>
    /\ LET w == tap.inflight[1].word
           tag == tap.inflight[1].tag
       IN  \/ /\ w.op = DMI_OP_WRITE
              /\ dm' = DmWrite(dm, w.addr, w.data)
              /\ tap' = [tap EXCEPT !.inflight = <<>>]
              /\ ghost' = [ghost EXCEPT !.applied[tag] = @ + 1]
           \/ /\ w.op = DMI_OP_READ
              /\ dm' = DmReadEffect(dm, w.addr)
              /\ tap' = [tap EXCEPT !.inflight = <<>>, !.rdata = DmReadValue(dm, w.addr)]
              /\ ghost' = [ghost EXCEPT !.applied[tag] = @ + 1]
           \/ /\ \E st \in {DMISTAT_OP_FAILED, DMISTAT_RESERVED} :
                    tap' = [tap EXCEPT !.inflight = <<>>, !.sticky = st]
              /\ UNCHANGED <<dm, ghost>>
    /\ UNCHANGED <<dmi, last_dmi, pc, call, ret, trace>>

(***************************************************************************)
(* Initial values.                                                         *)
(***************************************************************************)
\* calloc(1, sizeof(RVDBGv013_JTAG_t)): every field of the handle zero / NULL
\* current_hart is <<>> for NULL and <<k>> for &harts[k].
\* gp_register_backup is the backup buffer of harts[0], the only hart
\* current_hart is ever pointed at; harts holds idx and mhartid of the eight
\* HART_t elements.
Handle0 ==
    [refcnt |-> 0, idcode |-> 0, debug_version |-> 0, idle |-> 0, abits |-> 0,
     progbuf_size |-> 0, impebreak |-> FALSE, abstract_data_count |-> 0,
     support_autoexecdata |-> FALSE, num_harts |-> 0, current_hart |-> <<>>,
     read_csr |-> Null, write_csr |-> Null, read_mem |-> Null, write_mem |-> Null,
     gp_register_backup |-> [i \in 0 .. 30 |-> 0],
     harts |-> [i \in 0 .. 7 |-> [idx |-> 0, mhartid |-> 0]]]

\* The dtmcs register of a DTM: version[3:0], abits[9:4], dmistat[11:10] = 0,
\* idle[14:12].
DtmcsWord(version, abits, idle) == version + abits * Pow2(4) + idle * Pow2(12)

\* A Debug Module at rest: no command running, no error, autoexec disarmed.
Dm0 ==
    [data0 |-> 0, command |-> 0, cmderr |-> ABSTRACTCMD_ERR_NONE, busy |-> 0,
     autoexecdata |-> 0, automask |-> 4095, datacount |-> 12, progbufsize |-> 2,
     regs |-> [r \in RegNos |-> 0], progbuf |-> [i \in 0 .. 15 |-> RV32I_EBREAK],
     script |-> <<>>, dmifail |-> -1, log |-> <<>>, nexec |-> 0,
     autoexecprogbuf |-> 0, hartsel |-> 0, hartselmask |-> 0, nharts |-> 1,
     version |-> 2, authenticated |-> TRUE, impebreak |-> FALSE,
     confstrptrvalid |-> FALSE, nextdm |-> 0, dmactivegate |-> FALSE,
     dtmcs |-> DtmcsWord(1, 7, 1)]

Tap0 == [ir |-> IR_DMI, sticky |-> 0, inflight |-> <<>>, rdata |-> 0]

Ghost0 == [ncalls |-> 0, last_tag |-> 0, applied |-> [t \in 0 .. MaxCalls |-> 0],
           acked |-> {}]

IdleVals == {1, 3}

(***************************************************************************)
(* SpecDmi: dmi_write / dmi_read calls against the DTM, scan by scan.      *)
(***************************************************************************)
InitDmi ==
    /\ \E i \in IdleVals : dmi = [Handle0 EXCEPT !.abits = 7, !.idle = i, !.debug_version = 1]
    /\ last_dmi = DmiZero
    /\ tap = Tap0
    /\ dm = Dm0
    /\ pc = "idle"
    /\ call = [fn |-> "none", phase |-> 0, dmi_data_out |-> FALSE, dmi_cmd |-> DmiZero,
               orig |-> DmiZero, tag |-> 0, addr |-> 0, nintr |-> 0, data |-> Unset]
    /\ ret = NoRet
    /\ trace = <<>>
    /\ ghost = Ghost0

NextDmi ==
    \/ CallDmiWrite
    \/ CallDmiRead
    \/ LowAccessShift
    \/ LowAccessIntrReset
    \/ LowAccessReplay
    \/ DmComplete

SpecDmi == InitDmi /\ [][NextDmi]_vars

(***************************************************************************)
(* L3/L4 run one DMI access at a time: rvdbg_dmi_write and rvdbg_dmi_read  *)
(* as a whole, each either applied by the Debug Module (return 0) or       *)
(* answered op-failed (return -1, nothing applied).  Every operator takes  *)
(* the Debug Module record and returns it with the operation's results.    *)
(***************************************************************************)
\* static int rvdbg_dmi_write(dmi, addr, data)
DmiWrite(d, addr, data) ==
    LET w == WritePayload(addr, data)
    IN  IF d.dmifail = 0
        THEN [dm |-> [d EXCEPT !.dmifail = -1, !.log = Append(@, <<"w", addr, data, -1>>)],
              rv |-> -1]
        ELSE [dm |-> [DmWrite(d, w.addr, w.data) EXCEPT
                        !.dmifail = IF @ > 0 THEN @ - 1 ELSE @,
                        !.log = Append(@, <<"w", addr, data, 0>>)],
              rv |-> 0]

\* static int rvdbg_dmi_read(dmi, addr, data)
DmiRead(d, addr) ==
    IF d.dmifail = 0
    THEN [dm |-> [d EXCEPT !.dmifail = -1, !.log = Append(@, <<"r", addr, 0, -1>>)],
          rv |-> -1, data |-> Unset]
    ELSE [dm |-> [DmReadEffect(d, addr) EXCEPT
                    !.dmifail = IF @ > 0 THEN @ - 1 ELSE @,
                    !.log = Append(@, <<"r", addr, DmReadValue(d, addr), 0>>)],
          rv |-> 0, data |-> DmReadValue(d, addr)]

\* The value of the one-element set S.  The(IF .. : r \in {e}) runs the
\* statement e once and continues with its result r, as the C statements
\* run one after the other.
The(S) == CHOOSE x \in S : TRUE

\* do { if (rvdbg_dmi_read(dmi, DMI_REG_ABSTRACT_CS, &abstractcs) < 0) return -1; }
\* while (ABSTRACTCS_GET_BUSY(abstractcs));
RECURSIVE PollBusy(_)
PollBusy(d) ==
    The({ IF r.rv < 0 THEN [dm |-> r.dm, rv |-> -1, abstractcs |-> 0]
          ELSE IF ABSTRACTCS_GET_BUSY(r.data) = 1 THEN PollBusy(r.dm)
          ELSE [dm |-> r.dm, rv |-> 0, abstractcs |-> r.data]
        : r \in {DmiRead(d, DMI_REG_ABSTRACT_CS)} })

\* Mutant: the busy cmderr is returned to the caller like the others.
RetryOnBusy_Never(cmderror) == FALSE

\* if (cmderror == ABSTRACTCMD_ERR_BUSY) goto retry;
RetryOnBusy(cmderror) == cmderror = ABSTRACTCMD_ERR_BUSY

\* Mutant: only bit 8 of the cmderr field is written.
ClearCmderrWord_OneBit == Pow2(8)

\* abstractcs = 0; ABSTRACTCS_CLEAR_CMDERR(abstractcs);
ClearCmderrWord == ABSTRACTCS_CLEAR_CMDERR

\* static int rvdbg_abstract_command_run(dmi, command)
RECURSIVE rvdbg_abstract_command_run(_, _)
rvdbg_abstract_command_run(d, command) ==
    The({ IF w.rv < 0 THEN [dm |-> w.dm, rv |-> -1] ELSE
    The({ IF p.rv < 0 THEN [dm |-> p.dm, rv |-> -1] ELSE
          LET cmderror == ABSTRACTCS_GET_CMDERR(p.abstractcs)
          IN  IF cmderror = ABSTRACTCMD_ERR_NONE THEN [dm |-> p.dm, rv |-> cmderror] ELSE
    The({ IF c.rv < 0 THEN [dm |-> c.dm, rv |-> -1]
          ELSE IF RetryOnBusy(cmderror) THEN rvdbg_abstract_command_run(c.dm, command)
          ELSE [dm |-> c.dm, rv |-> cmderror]
        : c \in {DmiWrite(p.dm, DMI_REG_ABSTRACT_CS, ClearCmderrWord)} })
        : p \in {PollBusy(w.dm)} })
        : w \in {DmiWrite(d, DMI_REG_ABSTRACT_CMD, command)} })

\* The access_register command of rvdbg_read_single_reg / rvdbg_write_single_reg:
\* aarsize = 32 bit, transfer = 1, aarpostincrement = (astate == INIT).
SingleRegCmd(reg, write, astate) ==
    AccessRegisterCmd(BUS_ACCESS_32, IF astate = "INIT" THEN 1 ELSE 0, 0, 1, write, reg)

\* if (astate != AUTOEXEC_STATE_CONT) { if ((ret = rvdbg_abstract_command_run(
\*     dmi, command)) < 0) return -1; switch (ret) { case NONE: break;
\*     case EXCEPTION: return -1; default: return -1; } }
\* rv = 0 when control goes on after the block.
RunUnlessCont(d, command, astate) ==
    IF astate = "CONT" THEN [dm |-> d, rv |-> 0]
    ELSE The({ IF r.rv < 0 THEN [dm |-> r.dm, rv |-> -1]
               ELSE IF r.rv # ABSTRACTCMD_ERR_NONE THEN [dm |-> r.dm, rv |-> -1]
               ELSE [dm |-> r.dm, rv |-> 0]
             : r \in {rvdbg_abstract_command_run(d, command)} })

\* static int rvdbg_read_single_reg(dmi, reg_idx, out, astate); out is the word
\* stored to *out, or Unset when nothing was stored.
rvdbg_read_single_reg(d, reg_idx, astate) ==
    The({ IF r.rv < 0 THEN [dm |-> r.dm, rv |-> -1, out |-> Unset] ELSE
    The({ IF rd.rv < 0 THEN [dm |-> rd.dm, rv |-> -1, out |-> Unset]
          ELSE IF astate # "CONT" THEN [dm |-> rd.dm, rv |-> 0, out |-> rd.data] ELSE
    The({ IF p.rv < 0 THEN [dm |-> p.dm, rv |-> -1, out |-> rd.data]
          ELSE [dm |-> p.dm, rv |-> 0, out |-> rd.data]
        : p \in {PollBusy(rd.dm)} })
        : rd \in {DmiRead(r.dm, DMI_REG_ABSTRACTDATA_BEGIN)} })
        : r \in {RunUnlessCont(d, SingleRegCmd(reg_idx, 0, astate), astate)} })

\* static int rvdbg_write_single_reg(dmi, reg_id, value, astate)
rvdbg_write_single_reg(d, reg_id, value, astate) ==
    The({ IF w.rv < 0 THEN [dm |-> w.dm, rv |-> -1]
          ELSE IF astate # "CONT"
               THEN RunUnlessCont(w.dm, SingleRegCmd(reg_id, 1, astate), astate) ELSE
    The({ IF p.rv < 0 THEN [dm |-> p.dm, rv |-> -1]
          ELSE [dm |-> p.dm, rv |-> 0]
        : p \in {PollBusy(w.dm)} })
        : w \in {DmiWrite(d, DMI_REG_ABSTRACTDATA_BEGIN, value)} })

\* (uint16_t)(reg_id + i)
U16(x) == x % Pow2(16)

\* abstractauto = 0; ABSTRACTAUTO_SET_DATA(abstractauto, ABSTRACTAUTO_SOME_PATTEN);
AutoexecArmWord == ABSTRACTAUTO_SET_DATA(ABSTRACTAUTO_SOME_PATTEN)

\* if (len > 1 && dmi->support_autoexecdata) { astate = AUTOEXEC_STATE_INIT;
\*     ...; if (rvdbg_dmi_write(dmi, DMI_REG_ABSTRACT_AUTOEXEC, abstractauto) < 0)
\*     return -1; }
AutoexecArm(d, h, len) ==
    IF len > 1 /\ h.support_autoexecdata
    THEN The({ [dm |-> a.dm, rv |-> a.rv, astate |-> "INIT"]
             : a \in {DmiWrite(d, DMI_REG_ABSTRACT_AUTOEXEC, AutoexecArmWord)} })
    ELSE [dm |-> d, rv |-> 0, astate |-> "NONE"]

\* Mutant: autoexec is disarmed only when every register access succeeded.
AutoexecReset_OnSuccessOnly(d, astate, err) ==
    IF astate # "NONE" /\ err = 0
    THEN The({ [dm |-> z.dm, rv |-> IF z.rv < 0 THEN -1 ELSE err]
             : z \in {DmiWrite(d, DMI_REG_ABSTRACT_AUTOEXEC, ABSTRACTAUTO_SET_DATA(0))} })
    ELSE [dm |-> d, rv |-> err]
\* if (astate != AUTOEXEC_STATE_NONE) { abstractauto = 0; ABSTRACTAUTO_SET_DATA(
\*     abstractauto, 0); if (rvdbg_dmi_write(...) < 0) return -1; } return err;
AutoexecReset(d, astate, err) ==
    IF astate # "NONE"
    THEN The({ [dm |-> z.dm, rv |-> IF z.rv < 0 THEN -1 ELSE err]
             : z \in {DmiWrite(d, DMI_REG_ABSTRACT_AUTOEXEC, ABSTRACTAUTO_SET_DATA(0))} })
    ELSE [dm |-> d, rv |-> err]

\* for (i = 0; i < len; i++) { if (rvdbg_write_single_reg(dmi, reg_id + i,
\*     values[i], astate) < 0) { err = -1; break; }
\*     if (astate == AUTOEXEC_STATE_INIT) astate = AUTOEXEC_STATE_CONT; }
\* The iterations i .. len - 1, entered with d and astate; values is indexed
\* from 0.  More than one iteration: the first half of them, then, unless
\* they broke off, the rest.
RECURSIVE WriteRegsLoop(_, _, _, _, _, _)
WriteRegsLoop(d, reg_id, values, len, i, astate) ==
    IF i >= len THEN [dm |-> d, err |-> 0, astate |-> astate]
    ELSE IF len = i + 1
    THEN The({ IF r.rv < 0 THEN [dm |-> r.dm, err |-> -1, astate |-> astate]
               ELSE [dm |-> r.dm, err |-> 0,
                     astate |-> IF astate = "INIT" THEN "CONT" ELSE astate]
             : r \in {rvdbg_write_single_reg(d, U16(reg_id + i), values[i], astate)} })
    ELSE The({ IF h.err < 0 THEN h
               ELSE WriteRegsLoop(h.dm, reg_id, values, len, (i + len) \div 2, h.astate)
             : h \in {WriteRegsLoop(d, reg_id, values, (i + len) \div 2, i, astate)} })

\* static int rvdbg_write_regs(dmi, reg_id, values, len)
rvdbg_write_regs(d, h, reg_id, values, len) ==
    The({ IF a.rv < 0 THEN [dm |-> a.dm, rv |-> -1] ELSE
    The({ AutoexecReset(l.dm, l.astate, l.err)
        : l \in {WriteRegsLoop(a.dm, reg_id, values, len, 0, a.astate)} })
        : a \in {AutoexecArm(d, h, len)} })

\* The loop of rvdbg_read_regs, iterations i .. len - 1; values is the
\* caller's array, indexed from 0.  More than one iteration: the first half
\* of them, then, unless they broke off, the rest.
RECURSIVE ReadRegsLoop(_, _, _, _, _, _)
ReadRegsLoop(d, reg_id, values, len, i, astate) ==
    IF i >= len THEN [dm |-> d, err |-> 0, astate |-> astate, values |-> values]
    ELSE IF len = i + 1
    THEN The({ LET v == IF r.out = Unset THEN values ELSE [values EXCEPT ![i] = r.out]
               IN  IF r.rv < 0
                   THEN [dm |-> r.dm, err |-> -1, astate |-> astate, values |-> v]
                   ELSE [dm |-> r.dm, err |-> 0, values |-> v,
                         astate |-> IF astate = "INIT" THEN "CONT" ELSE astate]
             : r \in {rvdbg_read_single_reg(d, U16(reg_id + i), astate)} })
    ELSE The({ IF h.err < 0 THEN h
               ELSE ReadRegsLoop(h.dm, reg_id, h.values, len, (i + len) \div 2, h.astate)
             : h \in {ReadRegsLoop(d, reg_id, values, (i + len) \div 2, i, astate)} })

\* static int rvdbg_read_regs(dmi, reg_id, values, len)
rvdbg_read_regs(d, h, reg_id, values, len) ==
    The({ IF a.rv < 0 THEN [dm |-> a.dm, rv |-> -1, values |-> values] ELSE
    The({ The({ [dm |-> z.dm, rv |-> z.rv, values |-> l.values]
              : z \in {AutoexecReset(l.dm, l.astate, l.err)} })
        : l \in {ReadRegsLoop(a.dm, reg_id, values, len, 0, a.astate)} })
        : a \in {AutoexecArm(d, h, len)} })

\* Mutant: the condition parsed as buffer_len > ((progbuf_size + impebreak) ? 1 : 0).
UploadRejects_SumAsCondition(buffer_len, progbuf_size, impebreak) ==
    buffer_len > (IF progbuf_size + (IF impebreak THEN 1 ELSE 0) # 0 THEN 1 ELSE 0)

\* if (buffer_len > dmi->progbuf_size + dmi->impebreak ? 1 : 0): the relational
\* operator binds tighter than ?:, so the condition is
\* ((buffer_len > progbuf_size + impebreak) ? 1 : 0) != 0, impebreak a bool.
UploadRejects(buffer_len, progbuf_size, impebreak) ==
    (IF buffer_len > progbuf_size + (IF impebreak THEN 1 ELSE 0) THEN 1 ELSE 0) # 0

\* for (i = DMI_REG_PROGRAMBUF_BEGIN; i < buffer_len; i++)
\*     if (rvdbg_dmi_write(dmi, DMI_REG_PROGRAMBUF_BEGIN + i, buffer[i]) < 0) return -1;
\* buffer is indexed from 0; oob is the word a read past its end yields.
RECURSIVE UploadLoop(_, _, _, _, _)
UploadLoop(d, buffer, buffer_len, i, oob) ==
    IF i >= buffer_len THEN [dm |-> d, rv |-> 0]
    ELSE The({ IF w.rv < 0 THEN [dm |-> w.dm, rv |-> -1]
               ELSE UploadLoop(w.dm, buffer, buffer_len, i + 1, oob)
             : w \in {DmiWrite(d, DMI_REG_PROGRAMBUF_BEGIN + i,
                               IF i \in DOMAIN buffer THEN buffer[i] ELSE oob)} })

\* static int rvdbg_progbuf_upload(dmi, buffer, buffer_len)
rvdbg_progbuf_upload(d, h, buffer, buffer_len, oob) ==
    IF UploadRejects(buffer_len, h.progbuf_size, h.impebreak)
    THEN [dm |-> d, rv |-> -1]
    ELSE UploadLoop(d, buffer, buffer_len, DMI_REG_PROGRAMBUF_BEGIN, oob)

\* Mutant: the command also transfers a register.
ProgbufExecCmd_Transfer == AccessRegisterCmd(0, 0, 1, 1, 0, 0)
\* command = 0; ABSTRACTCMD_SET_TYPE(command, ACCESS_REGISTER); ..._SET_POSTEXEC(command, 1)
ProgbufExecCmd == AccessRegisterCmd(0, 0, 1, 0, 0, 0)

MaxBackup == 31

\* Mutant: backup_len is argin_len alone.
Max_First(a, b) == a
Max(a, b) == IF a > b THEN a ELSE b

\* switch (ret) { case ABSTRACTCMD_ERR_EXCEPTION: return -1; default: return -1; }
\* TRUE when the switch returns from rvdbg_progbuf_exec.
ProgbufExecSwitchReturns(r) ==
    IF r = ABSTRACTCMD_ERR_EXCEPTION THEN TRUE ELSE TRUE

\* The statements of rvdbg_progbuf_exec after the switch: copy the result,
\* restore the backup, return 0.
ProgbufExecFinish(d, h, args, argout_len, backup, backup_len, r) ==
    The({ IF ra.rv < 0
          THEN [dm |-> ra.dm, rv |-> -1, args |-> ra.values, backup |-> backup, ret |-> r]
          ELSE
    The({ [dm |-> wr.dm, rv |-> IF wr.rv < 0 THEN -1 ELSE 0, args |-> ra.values,
           backup |-> backup, ret |-> r]
        : wr \in {rvdbg_write_regs(ra.dm, h, HART_REG_GPR_BEGIN + 1, backup, backup_len)} })
        : ra \in {rvdbg_read_regs(d, h, HART_REG_GPR_BEGIN + 1, args, argout_len)} })

\* static int rvdbg_progbuf_exec(dmi, args, argin_len, argout_len); args is
\* indexed from 0.  Returns the Debug Module, the return value, args and
\* current_hart->gp_register_backup as the call leaves them, and `ret`, the
\* local holding the result of the postexec command (Unset when not run).
rvdbg_progbuf_exec(d, h, args, argin_len, argout_len) ==
    LET backup_len == Max(argin_len, argout_len)
    IN  IF backup_len > MaxBackup
        THEN [dm |-> d, rv |-> -1, args |-> args, backup |-> h.gp_register_backup,
              ret |-> Unset]
        ELSE
    The({ IF rb.rv < 0
          THEN [dm |-> rb.dm, rv |-> -1, args |-> args, backup |-> rb.values, ret |-> Unset]
          ELSE
    The({ IF wa.rv < 0
          THEN [dm |-> wa.dm, rv |-> -1, args |-> args, backup |-> rb.values, ret |-> Unset]
          ELSE
    The({ IF r.rv < 0
          THEN [dm |-> r.dm, rv |-> -1, args |-> args, backup |-> rb.values, ret |-> r.rv]
          ELSE IF ProgbufExecSwitchReturns(r.rv)
          THEN [dm |-> r.dm, rv |-> -1, args |-> args, backup |-> rb.values, ret |-> r.rv]
          ELSE ProgbufExecFinish(r.dm, h, args, argout_len, rb.values, backup_len, r.rv)
        : r \in {rvdbg_abstract_command_run(wa.dm, ProgbufExecCmd)} })
        : wa \in {rvdbg_write_regs(rb.dm, h, HART_REG_GPR_BEGIN + 1, args, argin_len)} })
        : rb \in {rvdbg_read_regs(d, h, HART_REG_GPR_BEGIN + 1, h.gp_register_backup,
                                  backup_len)} })

\* static int rvdbg_read_csr_progbuf(dmi, reg_id, value); value is *value
\* before the call, the result's value is *value after it.
rvdbg_read_csr_progbuf(d, h, reg_id, value) ==
    The({ IF u.rv < 0
          THEN [dm |-> u.dm, rv |-> -1, value |-> value, backup |-> h.gp_register_backup,
                ret |-> Unset]
          ELSE
    The({ [dm |-> e.dm, rv |-> IF e.rv < 0 THEN -1 ELSE 0, value |-> e.args[0],
           backup |-> e.backup, ret |-> e.ret]
        : e \in {rvdbg_progbuf_exec(u.dm, h, [i \in {0} |-> value], 0, 1)} })
        : u \in {rvdbg_progbuf_upload(d, h, [i \in {0} |-> RV32I_ISA_CSRRS(1, reg_id, 0)],
                                      1, 0)} })

(***************************************************************************)
(* Claims about the DMI engine, checked under SpecDmi.                     *)
(***************************************************************************)

\* C1: whenever the low access returned 0, last_dmi is the payload that was
\* passed to it, however many interrupted responses came first; after a
\* successful dmi_write last_dmi is that WRITE payload, after a successful
\* dmi_read it is the NOP payload (the all-zero word).
C1_LastDmiIsPayload ==
    /\ (ret.valid /\ ret.rv = 0) => last_dmi = ret.cmd
    /\ (ret.valid /\ ret.rv = 0 /\ ret.done /\ ret.fn = "write") =>
          /\ last_dmi.op = 2
          /\ last_dmi.addr = call.addr
    /\ (ret.valid /\ ret.rv = 0 /\ ret.done /\ ret.fn = "read") =>
          last_dmi = [addr |-> 0, data |-> 0, op |-> 0]

\* C1 witness: a dmi_write returned 0 after the target had answered
\* interrupted as often as the model allows.
C1_Witness ==
    /\ ret.valid /\ ret.rv = 0 /\ ret.done /\ ret.fn = "write"
    /\ call.nintr = MaxIntr
    /\ last_dmi = ret.cmd

\* C2: the low access returns 0 only after a scan of the caller's payload that
\* was answered op = 0, and -1 only after a scan answered op = 2 or op = 1,
\* followed by a soft dmireset; an interrupted response is never returned.
C2_ReturnCodes ==
    ret.valid =>
        /\ ret.rv \in {0, -1}
        /\ ret.rv = 0 =>
              /\ ret.resp = 0
              /\ ret.trace[Len(ret.trace)] = <<"dmi", 34 + dmi.abits, ret.cmd>>
        /\ ret.rv = -1 =>
              /\ ret.resp \in {1, 2}
              /\ Len(ret.trace) >= 4
              /\ SubSeq(ret.trace, Len(ret.trace) - 3, Len(ret.trace)) =
                   << <<"dmi", 34 + dmi.abits, ret.cmd>>,
                      <<"ir", 16>>, <<"dr32", 65536>>, <<"ir", 17>> >>

\* C2 witness: an access returned -1 after having been interrupted first.
C2_Witness ==
    ret.valid /\ ret.rv = -1 /\ ret.resp = 2 /\ call.nintr >= 1

\* The adapter operations the engine issues for one interrupted response.
C3_Round ==
    << <<"dmi", 34 + dmi.abits, call.orig>>,
       <<"ir", 16>>, <<"dr32", 65536>>, <<"ir", 17>>,
       <<"dmi", 34 + dmi.abits, last_dmi>> >>
    \o (IF dmi.idle >= 2 THEN << <<"tms", 0, dmi.idle - 1>> >> ELSE <<>>)

RECURSIVE C3_Rounds(_)
C3_Rounds(n) == IF n = 0 THEN <<>> ELSE C3_Round \o C3_Rounds(n - 1)

\* C3: each time a scan of the caller's payload is answered interrupted, the
\* engine issues a soft dmireset scan under IR_DTMCS, restores IR_DMI, scans
\* the stored last_dmi once and then runs idle - 1 TMS = 0 cycles if
\* idle >= 2; the payload it scans next is the caller's, unchanged.
C3_InterruptedSequence ==
    pc = "retry" =>
        /\ trace = C3_Rounds(call.nintr)
        /\ call.dmi_cmd = call.orig
        /\ tap.ir = 17

\* C3 witness: two interrupted responses have been handled, with idle >= 2.
C3_Witness ==
    pc = "retry" /\ call.nintr = 2 /\ dmi.idle >= 2 /\ last_dmi # call.orig

MaxScript == 2      \* command executions whose outcome the target chooses
MaxBusy == 1        \* abstractcs polls answered busy after one execution
MaxFail == 3        \* DMI accesses answered before the one that fails

\* The target's choices for the coming command executions.
RECURSIVE Scripts(_, _)
Scripts(steps, n) ==
    IF n = 0 THEN {<<>>}
    ELSE {<<>>} \cup {<<s>> \o t : s \in steps, t \in Scripts(steps, n - 1)}

AbsSteps == [busy : {0, MaxBusy}, err : CmdErrs]

\* Register values of the hart before a call.
Regs1 ==
    [r \in RegNos |-> IF r = HART_REG_CSR_MISA THEN 1073 ELSE 10 * (r - HART_REG_GPR_BEGIN) + 1]

AbsCommands ==
    {SingleRegCmd(HART_REG_GPR_BEGIN + 1, 0, "NONE"),
     SingleRegCmd(HART_REG_GPR_BEGIN + 2, 1, "NONE"),
     ProgbufExecCmd}

RetAbs0 == [fn |-> "none", rv |-> 0]

InitAbs ==
    /\ dmi = [Handle0 EXCEPT !.abits = 7, !.idle = 1, !.debug_version = 1]
    /\ last_dmi = DmiZero
    /\ tap = Tap0
    /\ \E e \in {ABSTRACTCMD_ERR_NONE, ABSTRACTCMD_ERR_BUSY, ABSTRACTCMD_ERR_EXCEPTION},
          b \in {0, MaxBusy} :
          dm = [Dm0 EXCEPT !.cmderr = e, !.busy = b, !.regs = Regs1]
    /\ pc = "start"
    /\ call = [fn |-> "none"]
    /\ ret = RetAbs0
    /\ trace = <<>>
    /\ ghost = Ghost0

RunAbstractCommand ==
    /\ pc = "start"
    /\ \E command \in AbsCommands, s \in Scripts(AbsSteps, MaxScript), f \in -1 .. MaxFail :
          LET d0 == [dm EXCEPT !.script = s, !.dmifail = f]
          IN  \E r \in {rvdbg_abstract_command_run(d0, command)} :
              /\ dm' = r.dm
              /\ ret' = [fn |-> "abstract_command_run", rv |-> r.rv]
              /\ call' = [fn |-> "abstract_command_run", command |-> command, dm0 |-> d0]
    /\ pc' = "done"
    /\ UNCHANGED <<dmi, last_dmi, tap, trace, ghost>>

NextAbs == RunAbstractCommand

SpecAbs == InitAbs /\ [][NextAbs]_vars

\* TRUE when the operation's log entry i is a DMI access that failed.
LogFailed(i) == dm.log[i][4] = -1

\* TRUE when log entry i is a read of abstractcs answered not busy with a
\* non-zero cmderr: the read rvdbg_abstract_command_run takes its cmderror from.
LogCmderrRead(i) ==
    /\ dm.log[i][1] = "r" /\ dm.log[i][2] = 22 /\ dm.log[i][4] = 0
    /\ (dm.log[i][3] \div 4096) % 2 = 0
    /\ (dm.log[i][3] \div 256) % 8 # 0

\* C5: rvdbg_abstract_command_run never returns cmderr busy: after reading
\* cmderr = 1 it clears cmderr and writes the same command word again; it
\* returns -1 exactly when a DMI access failed and otherwise the cmderr of its
\* last abstractcs read, one of 0, 2, 3, 4, 5, 7.
C5_BusyRetriedInside ==
    (pc = "done" /\ ret.fn = "abstract_command_run") =>
        /\ ret.rv # 1
        /\ ret.rv = -1 <=> \E i \in 1 .. Len(dm.log) : LogFailed(i)
        /\ ret.rv # -1 =>
              /\ ret.rv \in {0, 2, 3, 4, 5, 7}
              /\ dm.log[Len(dm.log) - (IF ret.rv = 0 THEN 0 ELSE 1)][1] = "r"
              /\ dm.log[Len(dm.log) - (IF ret.rv = 0 THEN 0 ELSE 1)][2] = 22
              /\ (dm.log[Len(dm.log) - (IF ret.rv = 0 THEN 0 ELSE 1)][3] \div 256) % 8 = ret.rv
        /\ \A i \in 1 .. Len(dm.log) :
              (LogCmderrRead(i) /\ (dm.log[i][3] \div 256) % 8 = 1
                 /\ i + 1 <= Len(dm.log) /\ ~LogFailed(i + 1)) =>
                    /\ i + 2 <= Len(dm.log)
                    /\ dm.log[i + 2][1] = "w"
                    /\ dm.log[i + 2][2] = 23
                    /\ dm.log[i + 2][3] = call.command

\* C5 witness: the command was written twice because the first execution was
\* answered cmderr busy, and the call returned the second execution's cmderr.
C5_Witness ==
    /\ pc = "done" /\ ret.fn = "abstract_command_run" /\ ret.rv = 3
    /\ call.dm0.cmderr = 0 /\ call.dm0.busy = 0
    /\ \E i \in 1 .. Len(dm.log) : LogCmderrRead(i) /\ (dm.log[i][3] \div 256) % 8 = 1
    /\ dm.nexec = 2

\* C6: every non-zero cmderr the call observes is followed by a write of
\* abstractcs with the three cmderr bits set, before it returns or retries;
\* when it returns a positive cmderr the Debug Module's cmderr is 0 and the
\* next abstract command written is executed.
C6_CmderrCleared ==
    (pc = "done" /\ ret.fn = "abstract_command_run") =>
        /\ \A i \in 1 .. Len(dm.log) :
              LogCmderrRead(i) =>
                 /\ i + 1 <= Len(dm.log)
                 /\ dm.log[i + 1][1] = "w"
                 /\ dm.log[i + 1][2] = 22
                 /\ dm.log[i + 1][3] = 1792
        /\ ret.rv > 0 =>
              /\ dm.cmderr = 0
              /\ DmWrite(dm, 23, call.command).nexec = dm.nexec + 1

\* C6 witness: the command itself raised cmderr 7 and the call returned it
\* with the Debug Module's cmderr cleared.
C6_Witness ==
    /\ pc = "done" /\ ret.fn = "abstract_command_run" /\ ret.rv = 7
    /\ call.dm0.cmderr = 0
    /\ dm.cmderr = 0
    /\ dm.log[Len(dm.log)] = <<"w", 22, 1792, 0>>

(***************************************************************************)
(* SpecRegs: one call of rvdbg_read_regs or rvdbg_write_regs.  The handle's *)
(* support_autoexecdata is what rvdbg_select_mem_and_csr_access_impl found: *)
(* true exactly when the Debug Module implements all the autoexecdata bits  *)
(* of ABSTRACTAUTO_SOME_PATTEN.                                             *)
(***************************************************************************)
MaxExecs == 4       \* the command execution, counted from 1, the target may fault
MaxLen == 2         \* registers accessed by one batched call

Clean == [busy |-> 0, err |-> ABSTRACTCMD_ERR_NONE]

RegSteps ==
    [busy : {0, MaxBusy},
     err : {ABSTRACTCMD_ERR_NONE, ABSTRACTCMD_ERR_BUSY, ABSTRACTCMD_ERR_EXCEPTION}]

\* The target behaves on every command execution but possibly the n-th.
FaultScripts ==
    {<<>>} \cup {[i \in 1 .. n |-> IF i = n THEN st ELSE Clean] :
                    n \in 1 .. MaxExecs, st \in RegSteps \ {Clean}}

Regs2 ==
    [r \in RegNos |-> IF r = HART_REG_CSR_MISA THEN 1073 ELSE 1000 - (r - HART_REG_GPR_BEGIN)]

\* The handle and the Debug Module as rvdbg_dtm_init leaves them.
HandleFor(support, impebreak) ==
    [Handle0 EXCEPT !.abits = 7, !.idle = 1, !.debug_version = 1,
                    !.progbuf_size = Dm0.progbufsize, !.impebreak = impebreak,
                    !.abstract_data_count = IF support THEN 12 ELSE 1,
                    !.support_autoexecdata = support]

DmFor(support, regs) ==
    [Dm0 EXCEPT !.regs = regs,
                !.datacount = IF support THEN 12 ELSE 1,
                !.automask = IF support THEN 4095 ELSE 1]

\* TRUE when the target of the call neither faults nor fails a DMI access.
FaultFree(d) ==
    /\ d.script = <<>> /\ d.dmifail = -1
    /\ d.cmderr = ABSTRACTCMD_ERR_NONE /\ d.busy = 0

InitRegs ==
    /\ \E support \in BOOLEAN, regs \in {Regs1, Regs2} :
          /\ dmi = HandleFor(support, FALSE)
          /\ dm = DmFor(support, regs)
    /\ last_dmi = DmiZero
    /\ tap = Tap0
    /\ pc = "start"
    /\ call = [fn |-> "none"]
    /\ ret = RetAbs0
    /\ trace = <<>>
    /\ ghost = Ghost0

RegBases == {HART_REG_GPR_BEGIN + 1, HART_REG_GPR_BEGIN + 2}

ReadRegs ==
    /\ pc = "start"
    /\ \E reg \in RegBases, len \in 0 .. MaxLen, s \in FaultScripts, f \in -1 .. MaxFail :
          LET d0 == [dm EXCEPT !.script = s, !.dmifail = f]
              values == [i \in 0 .. len - 1 |-> Unset]
          IN  \E r \in {rvdbg_read_regs(d0, dmi, reg, values, len)} :
              /\ dm' = r.dm
              /\ ret' = [fn |-> "read_regs", rv |-> r.rv, values |-> r.values]
              /\ call' = [fn |-> "read_regs", reg |-> reg, len |-> len, dm0 |-> d0,
                          values |-> values]
    /\ pc' = "done"
    /\ UNCHANGED <<dmi, last_dmi, tap, trace, ghost>>

WriteRegs ==
    /\ pc = "start"
    /\ \E reg \in RegBases, len \in 0 .. MaxLen, base \in {100, 200},
          s \in FaultScripts, f \in -1 .. MaxFail :
          LET d0 == [dm EXCEPT !.script = s, !.dmifail = f]
              values == [i \in 0 .. len - 1 |-> base + i]
          IN  \E r \in {rvdbg_write_regs(d0, dmi, reg, values, len)} :
              /\ dm' = r.dm
              /\ ret' = [fn |-> "write_regs", rv |-> r.rv]
              /\ call' = [fn |-> "write_regs", reg |-> reg, len |-> len, dm0 |-> d0,
                          values |-> values]
    /\ pc' = "done"
    /\ UNCHANGED <<dmi, last_dmi, tap, trace, ghost>>

NextRegs ==
    \/ ReadRegs
    \/ WriteRegs

SpecRegs == InitRegs /\ [][NextRegs]_vars

\* C7: with support_autoexecdata and len >= 2, on a target that does not
\* fault, rvdbg_read_regs returns what len independent single-register reads
\* of reg .. reg+len-1 return, and rvdbg_write_regs leaves the registers as
\* len independent single-register writes leave them.
C7_BatchEqualsSingles ==
    (pc = "done" /\ dmi.support_autoexecdata /\ call.len >= 2 /\ FaultFree(call.dm0)) =>
        /\ ret.fn = "read_regs" =>
              /\ ret.rv = 0
              /\ \A i \in 0 .. call.len - 1 :
                    ret.values[i] =
                        rvdbg_read_single_reg(call.dm0, U16(call.reg + i), "NONE").out
        /\ ret.fn = "write_regs" =>
              /\ ret.rv = 0
              /\ dm.regs =
                    WriteRegsLoop(call.dm0, call.reg, call.values, call.len, 0, "NONE").dm.regs

(***************************************************************************)
(* SpecProgbuf: one call of rvdbg_progbuf_exec or rvdbg_read_csr_progbuf.   *)
(***************************************************************************)
MaxArgs == 2        \* argument registers of one rvdbg_progbuf_exec call

ArgLens == (0 .. MaxArgs) \cup {MaxBackup, MaxBackup + 1}

InitProgbuf ==
    /\ \E support \in BOOLEAN, impebreak \in BOOLEAN :
          /\ dmi = HandleFor(support, impebreak)
          /\ dm = DmFor(support, Regs1)
    /\ last_dmi = DmiZero
    /\ tap = Tap0
    /\ pc = "start"
    /\ call = [fn |-> "none"]
    /\ ret = RetAbs0
    /\ trace = <<>>
    /\ ghost = Ghost0

ProgbufExec ==
    /\ pc = "start"
    /\ \E argin_len \in ArgLens, argout_len \in ArgLens, base \in {100, 200},
          s \in FaultScripts, f \in -1 .. MaxFail :
          LET d0 == [dm EXCEPT !.script = s, !.dmifail = f]
              args == [i \in 0 .. Max(argin_len, argout_len) - 1 |-> base + i]
          IN  \E r \in {rvdbg_progbuf_exec(d0, dmi, args, argin_len, argout_len)} :
              /\ dm' = r.dm
              /\ dmi' = [dmi EXCEPT !.gp_register_backup = r.backup]
              /\ ret' = [fn |-> "progbuf_exec", rv |-> r.rv, args |-> r.args, ret |-> r.ret]
              /\ call' = [fn |-> "progbuf_exec", argin_len |-> argin_len,
                          argout_len |-> argout_len, args |-> args, dm0 |-> d0]
    /\ pc' = "done"
    /\ UNCHANGED <<last_dmi, tap, trace, ghost>>

ReadCsrProgbuf ==
    /\ pc = "start"
    /\ \E reg_id \in {HART_REG_CSR_MISA}, value \in {0, 5},
          s \in FaultScripts, f \in -1 .. MaxFail :
          LET d0 == [dm EXCEPT !.script = s, !.dmifail = f]
          IN  \E r \in {rvdbg_read_csr_progbuf(d0, dmi, reg_id, value)} :
              /\ dm' = r.dm
              /\ dmi' = [dmi EXCEPT !.gp_register_backup = r.backup]
              /\ ret' = [fn |-> "read_csr_progbuf", rv |-> r.rv, value |-> r.value,
                         ret |-> r.ret]
              /\ call' = [fn |-> "read_csr_progbuf", reg_id |-> reg_id, value |-> value,
                          dm0 |-> d0]
    /\ pc' = "done"
    /\ UNCHANGED <<last_dmi, tap, trace, ghost>>

NextProgbuf ==
    \/ ProgbufExec
    \/ ReadCsrProgbuf

SpecProgbuf == InitProgbuf /\ [][NextProgbuf]_vars

\* TRUE when no DMI access of the finished call failed.
NoDmiFailure == \A i \in 1 .. Len(dm.log) : dm.log[i][4] = 0

\* C8: after rvdbg_progbuf_exec(args, in_len, out_len) has returned without a
\* DMI access having failed, the GPRs x1 .. x[max(in_len, out_len)] hold the
\* values they held immediately before the call.
C8_GprsPreserved ==
    (pc = "done" /\ ret.fn = "progbuf_exec" /\ NoDmiFailure) =>
        \A i \in 1 .. Max(call.argin_len, call.argout_len) :
            (HART_REG_GPR_BEGIN + i) \in RegNos =>
                dm.regs[HART_REG_GPR_BEGIN + i] = call.dm0.regs[HART_REG_GPR_BEGIN + i]

\* C9: when the postexec command of rvdbg_progbuf_exec completes with cmderr
\* NONE and no DMI access fails, the call goes on to copy the result and
\* restore the GPRs and returns 0; so rvdbg_read_csr_progbuf returns 0 with
\* the CSR's value in *value on a target that does not fault.
C9_NoneContinues ==
    /\ (pc = "done" /\ ret.fn = "progbuf_exec" /\ NoDmiFailure
          /\ ret.ret = ABSTRACTCMD_ERR_NONE) =>
             ret.rv = 0
    /\ (pc = "done" /\ ret.fn = "read_csr_progbuf" /\ FaultFree(call.dm0)) =>
             /\ ret.rv = 0
             /\ ret.value = call.dm0.regs[call.reg_id]

(***************************************************************************)
(* SpecUpload: one call of rvdbg_progbuf_upload, for every program buffer   *)
(* size a handle can hold, with and without impebreak, and every buffer_len *)
(* of the uint8_t parameter.                                                *)
(***************************************************************************)
MaxProgbufSize == 16
MaxBufferLen == 255

InitUpload ==
    /\ \E progbuf_size \in 0 .. MaxProgbufSize, impebreak \in BOOLEAN :
          /\ dmi = [HandleFor(TRUE, impebreak) EXCEPT !.progbuf_size = progbuf_size]
          /\ dm = [DmFor(TRUE, Regs1) EXCEPT !.progbufsize = progbuf_size]
    /\ last_dmi = DmiZero
    /\ tap = Tap0
    /\ pc = "start"
    /\ call = [fn |-> "none"]
    /\ ret = RetAbs0
    /\ trace = <<>>
    /\ ghost = Ghost0

ProgbufUpload ==
    /\ pc = "start"
    /\ \E buffer_len \in 0 .. MaxBufferLen, oob \in {0, RV32I_EBREAK}, f \in {-1, 0} :
          LET d0 == [dm EXCEPT !.dmifail = f]
              buffer == [i \in 0 .. buffer_len - 1 |-> RV32I_ISA_CSRRS(1, i, 0)]
          IN  \E r \in {rvdbg_progbuf_upload(d0, dmi, buffer, buffer_len, oob)} :
              /\ dm' = r.dm
              /\ ret' = [fn |-> "progbuf_upload", rv |-> r.rv]
              /\ call' = [fn |-> "progbuf_upload", buffer_len |-> buffer_len, dm0 |-> d0,
                          buffer |-> buffer]
    /\ pc' = "done"
    /\ UNCHANGED <<dmi, last_dmi, tap, trace, ghost>>

NextUpload == ProgbufUpload

SpecUpload == InitUpload /\ [][NextUpload]_vars

\* C10: for every progbuf_size in 0..16, impebreak and buffer_len in 0..255,
\* rvdbg_progbuf_upload returns -1 without any DMI access exactly when
\* buffer_len > progbuf_size + (impebreak ? 1 : 0); otherwise it does not
\* reject.
C10_RejectRule ==
    (pc = "done" /\ ret.fn = "progbuf_upload") =>
        /\ (ret.rv = -1 /\ dm.log = <<>>) <=>
              call.buffer_len > dmi.progbuf_size + (IF dmi.impebreak THEN 1 ELSE 0)
        /\ call.buffer_len <= dmi.progbuf_size + (IF dmi.impebreak THEN 1 ELSE 0) =>
              ret.rv # -1

\* C10 witness: with impebreak and progbuf_size 16 a buffer of 18 words, one
\* more than progbuf_size + 1, was rejected before any DMI access.
C10_Witness ==
    /\ pc = "done" /\ ret.fn = "progbuf_upload"
    /\ dmi.progbuf_size = 16 /\ dmi.impebreak
    /\ call.buffer_len = 18
    /\ ret.rv = -1 /\ dm.log = <<>>

\* C11: after rvdbg_progbuf_upload(buffer, n) has returned 0 with n >= 1, a
\* DMI write of buffer[i] to register 0x20 + i has been issued for every i in
\* 0 .. n-1, and the program buffer words the Debug Module implements hold
\* buffer[0 .. n).
C11_UploadWritesAll ==
    (pc = "done" /\ ret.fn = "progbuf_upload" /\ ret.rv = 0 /\ call.buffer_len >= 1) =>
        \A i \in 0 .. call.buffer_len - 1 :
            /\ \E k \in 1 .. Len(dm.log) : dm.log[k] = <<"w", 32 + i, call.buffer[i], 0>>
            /\ i < dm.progbufsize => dm.progbuf[i] = call.buffer[i]

(***************************************************************************)
(* Capability negotiation: rvdbg_select_mem_and_csr_access_impl.           *)
(***************************************************************************)
\* Mutant: a one-word program buffer is accepted without impebreak.
CapabilityRejects_NoImpebreakCheck(data_count, progbuf_size, impebreak) ==
    \/ data_count < 1 \/ data_count > 12
    \/ progbuf_size > 16

\* if (abstract_data_count < 1 || abstract_data_count > 12) return -1;
\* if (progbuf_size > 16) return -1;
\* else if (progbuf_size == 1 && !impebreak) return -1;
CapabilityRejects(data_count, progbuf_size, impebreak) ==
    \/ data_count < 1 \/ data_count > 12
    \/ progbuf_size > 16
    \/ (progbuf_size = 1 /\ ~impebreak)

\* if (dmi->progbuf_size > 0) { dmi->read_csr = rvdbg_read_csr_progbuf; }
InstallProgbufImpl(h) ==
    IF h.progbuf_size > 0 THEN [h EXCEPT !.read_csr = "rvdbg_read_csr_progbuf"] ELSE h

\* Mutant: any stuck bit counts as support.
AutoexecPatternAccepted_AnyBit(abstractauto) == ABSTRACTAUTO_GET_DATA(abstractauto) # 0

\* if (ABSTRACTAUTO_GET_DATA(abstractauto) == ABSTRACTAUTO_SOME_PATTEN)
AutoexecPatternAccepted(abstractauto) ==
    ABSTRACTAUTO_GET_DATA(abstractauto) = ABSTRACTAUTO_SOME_PATTEN

\* ABSTRACTAUTO_SET_DATA(abstractauto, 0) applied to the word read back.
AutoexecClearWord(abstractauto) ==
    abstractauto - Bits(abstractauto, 0, 12) + ABSTRACTAUTO_SET_DATA(0)

\* The autoexecdata probe of rvdbg_select_mem_and_csr_access_impl.
AutoexecProbe(d, h) ==
    The({ IF w.rv < 0 THEN [dm |-> w.dm, rv |-> -1, h |-> h] ELSE
    The({ IF r.rv < 0 THEN [dm |-> r.dm, rv |-> -1, h |-> h] ELSE
          LET h1 == IF AutoexecPatternAccepted(r.data)
                    THEN [h EXCEPT !.support_autoexecdata = TRUE] ELSE h
          IN
    The({ [dm |-> z.dm, rv |-> IF z.rv < 0 THEN -1 ELSE 0, h |-> h1]
        : z \in {DmiWrite(r.dm, DMI_REG_ABSTRACT_AUTOEXEC, AutoexecClearWord(r.data))} })
        : r \in {DmiRead(w.dm, DMI_REG_ABSTRACT_AUTOEXEC)} })
        : w \in {DmiWrite(d, DMI_REG_ABSTRACT_AUTOEXEC, AutoexecArmWord)} })

\* static int rvdbg_select_mem_and_csr_access_impl(dmi); returns the Debug
\* Module, the return value and the handle as the call leaves it.
rvdbg_select_mem_and_csr_access_impl(d, h) ==
    The({ IF r.rv < 0 THEN [dm |-> r.dm, rv |-> -1, h |-> h] ELSE
          LET h1 == [h EXCEPT !.progbuf_size = ABSTRACTCS_GET_PROGBUFSIZE(r.data),
                              !.abstract_data_count = ABSTRACTCS_GET_DATACOUNT(r.data)]
          IN  IF CapabilityRejects(h1.abstract_data_count, h1.progbuf_size, h1.impebreak)
              THEN [dm |-> r.dm, rv |-> -1, h |-> h1]
              ELSE AutoexecProbe(r.dm, InstallProgbufImpl(h1))
        : r \in {DmiRead(d, DMI_REG_ABSTRACT_CS)} })

(***************************************************************************)
(* SpecCaps: one call of rvdbg_select_mem_and_csr_access_impl on a handle   *)
(* as rvdbg_dtm_init passes it (impebreak taken from dmstatus), for every   *)
(* datacount and progbufsize abstractcs can hold.                           *)
(***************************************************************************)
\* Implemented autoexecdata bits: all, exactly the probed pattern, all but
\* bit 11, none.
AutoMasks == {4095, 2730, 2047, 0}

InitCaps ==
    /\ \E datacount \in 0 .. 15, progbufsize \in 0 .. 31, impebreak \in BOOLEAN,
          automask \in AutoMasks, resid \in {0, 1} :
          /\ dmi = [Handle0 EXCEPT !.abits = 7, !.idle = 1, !.debug_version = 1,
                                   !.impebreak = impebreak]
          /\ dm = [Dm0 EXCEPT !.datacount = datacount, !.progbufsize = progbufsize,
                              !.impebreak = impebreak, !.automask = automask,
                              !.autoexecprogbuf = IF progbufsize > 0 THEN resid ELSE 0]
    /\ last_dmi = DmiZero
    /\ tap = Tap0
    /\ pc = "start"
    /\ call = [fn |-> "none"]
    /\ ret = RetAbs0
    /\ trace = <<>>
    /\ ghost = Ghost0

SelectMemAndCsrAccessImpl ==
    /\ pc = "start"
    /\ \E f \in -1 .. MaxFail :
          LET d0 == [dm EXCEPT !.dmifail = f]
          IN  \E r \in {rvdbg_select_mem_and_csr_access_impl(d0, dmi)} :
              /\ dm' = r.dm
              /\ dmi' = r.h
              /\ ret' = [fn |-> "select_impl", rv |-> r.rv]
              /\ call' = [fn |-> "select_impl", dm0 |-> d0]
    /\ pc' = "done"
    /\ UNCHANGED <<last_dmi, tap, trace, ghost>>

NextCaps == SelectMemAndCsrAccessImpl

SpecCaps == InitCaps /\ [][NextCaps]_vars

\* C12: whenever capability negotiation returns success, abstract_data_count
\* is in 1..12, progbuf_size is in 0..16, and progbuf_size = 0 with no
\* progbuf-based entry installed, or progbuf_size in 2..16, or progbuf_size = 1
\* with impebreak; an abstractcs outside these ranges makes it fail.
C12_CapabilityRanges ==
    (pc = "done" /\ ret.fn = "select_impl") =>
        /\ ret.rv = 0 =>
              /\ dmi.abstract_data_count = call.dm0.datacount
              /\ dmi.progbuf_size = call.dm0.progbufsize
              /\ dmi.abstract_data_count \in 1 .. 12
              /\ dmi.progbuf_size \in 0 .. 16
              /\ \/ /\ dmi.progbuf_size = 0
                    /\ dmi.read_csr = Null /\ dmi.write_csr = Null
                    /\ dmi.read_mem = Null /\ dmi.write_mem = Null
                 \/ dmi.progbuf_size \in 2 .. 16
                 \/ dmi.progbuf_size = 1 /\ dmi.impebreak
        /\ (\/ call.dm0.datacount \notin 1 .. 12
            \/ call.dm0.progbufsize \notin 0 .. 16
            \/ (call.dm0.progbufsize = 1 /\ ~call.dm0.impebreak)) => ret.rv = -1

\* C12 witness: negotiation succeeded on a one-word program buffer with
\* impebreak and twelve data words.
C12_Witness ==
    /\ pc = "done" /\ ret.fn = "select_impl" /\ ret.rv = 0
    /\ dmi.progbuf_size = 1 /\ dmi.impebreak /\ dmi.abstract_data_count = 12

\* C13: after a successful negotiation with progbuf_size >= 1 the operation
\* table entries read_csr, write_csr, read_mem and write_mem are all set.
C13_ProgbufImplsInstalled ==
    (pc = "done" /\ ret.fn = "select_impl" /\ ret.rv = 0 /\ dmi.progbuf_size >= 1) =>
        /\ dmi.read_csr # Null /\ dmi.write_csr # Null
        /\ dmi.read_mem # Null /\ dmi.write_mem # Null

\* C14: after a successful negotiation with progbuf_size = 0, read_csr and
\* write_csr are set (to the abstract-command implementations).
C14_AbstractFallbackInstalled ==
    (pc = "done" /\ ret.fn = "select_impl" /\ ret.rv = 0 /\ dmi.progbuf_size = 0) =>
        dmi.read_csr # Null /\ dmi.write_csr # Null

\* C15: after the abstractauto probe has completed without a DMI failure,
\* support_autoexecdata is true exactly when the data field read back from
\* abstractauto equals the pattern 0b101010101010; the last word written to
\* abstractauto has a zero data field and the register reads as 0.
C15_AutoexecProbe ==
    (pc = "done" /\ ret.fn = "select_impl" /\ ret.rv = 0) =>
        /\ Len(dm.log) = 4
        /\ dm.log[3][1] = "r" /\ dm.log[3][2] = 24
        /\ dmi.support_autoexecdata <=> (dm.log[3][3] % 4096 = 2730)
        /\ dm.log[4][1] = "w" /\ dm.log[4][2] = 24 /\ dm.log[4][3] % 4096 = 0
        /\ DmReadValue(dm, 24) = 0

\* C15 witness: a Debug Module on which bit 11 of the pattern did not stick
\* was probed: support_autoexecdata stayed false.
C15_Witness ==
    /\ pc = "done" /\ ret.fn = "select_impl" /\ ret.rv = 0
    /\ dm.log[3] = <<"r", 24, 682, 0>>
    /\ ~dmi.support_autoexecdata

(***************************************************************************)
(* Hart discovery: rvdbg_discover_harts.                                    *)
(***************************************************************************)
RVDBG_MAX_HARTS == 8

\* #define DMSTATUS_GET_ANYNONEXISTENT(x) ((x >> 14) & 0x1)
DMSTATUS_GET_ANYNONEXISTENT(x) == Bits(x, 14, 1)

\* #define DMCONTROL_GET_HARTSEL(x) (((x >> 16) & 0x3ff) | (((x >> 6) & 0x3ff) << 10))
DMCONTROL_GET_HARTSEL(x) == Bits(x, 16, 10) + Bits(x, 6, 10) * Pow2(10)

\* DMCONTROL_SET_HARTSEL(t, s) on t = 0.  The third statement of the macro,
\* t |= (s & (0x3ff << 10) >> 4), is s & 0xffc0: bits 15:6 of s, in place.
DMCONTROL_SET_HARTSEL(s) == Bits(s, 0, 10) * Pow2(16) + Bits(s, 6, 10) * Pow2(6)

\* Mutant: the loop is bounded by hartsellen alone.
DiscoverContinues_NoArrayLimit(hart_idx, hartsellen, num_harts) ==
    hart_idx <= hartsellen

\* hart_idx <= hartsellen && dmi->num_harts < ARRAY_NUMELEM(dmi->harts)
DiscoverContinues(hart_idx, hartsellen, num_harts) ==
    hart_idx <= hartsellen /\ num_harts < RVDBG_MAX_HARTS

\* The for loop of rvdbg_discover_harts from hart_idx on; hart_idx is
\* returned as the loop leaves it (a break does not increment it).
RECURSIVE DiscoverLoop(_, _, _, _)
DiscoverLoop(d, h, hart_idx, hartsellen) ==
    IF ~DiscoverContinues(hart_idx, hartsellen, h.num_harts)
    THEN [dm |-> d, rv |-> 0, h |-> h, hart_idx |-> hart_idx] ELSE
    The({ IF w.rv < 0 THEN [dm |-> w.dm, rv |-> -1, h |-> h, hart_idx |-> hart_idx] ELSE
    The({ IF r.rv < 0 THEN [dm |-> r.dm, rv |-> -1, h |-> h, hart_idx |-> hart_idx]
          ELSE IF DMSTATUS_GET_ANYNONEXISTENT(r.data) = 1
          THEN [dm |-> r.dm, rv |-> 0, h |-> h, hart_idx |-> hart_idx]
          ELSE DiscoverLoop(r.dm, [h EXCEPT !.num_harts = (@ + 1) % 256],
                            hart_idx + 1, hartsellen)
        : r \in {DmiRead(w.dm, DMI_REG_DMSTATUS)} })
        : w \in {DmiWrite(d, DMI_REG_DMCONTROL, DMCONTROL_SET_HARTSEL(hart_idx))} })

\* The statements after the loop: select hartsel = hart_idx, point
\* current_hart at harts[0].
DiscoverSelect(d, h, hart_idx) ==
    The({ IF w.rv < 0 THEN [dm |-> w.dm, rv |-> -1, h |-> h]
          ELSE [dm |-> w.dm, rv |-> 0, h |-> [h EXCEPT !.current_hart = <<0>>]]
        : w \in {DmiWrite(d, DMI_REG_DMCONTROL, DMCONTROL_SET_HARTSEL(hart_idx))} })

\* static int rvdbg_discover_harts(dmi)
rvdbg_discover_harts(d, h) ==
    The({ IF w.rv < 0 THEN [dm |-> w.dm, rv |-> -1, h |-> h] ELSE
    The({ IF r.rv < 0 THEN [dm |-> r.dm, rv |-> -1, h |-> h] ELSE
    The({ IF l.rv < 0 THEN [dm |-> l.dm, rv |-> -1, h |-> l.h]
          ELSE DiscoverSelect(l.dm, l.h, l.hart_idx)
        : l \in {DiscoverLoop(r.dm, h, 0, DMCONTROL_GET_HARTSEL(r.data))} })
        : r \in {DmiRead(w.dm, DMI_REG_DMCONTROL)} })
        : w \in {DmiWrite(d, DMI_REG_DMCONTROL, DMCONTROL_SET_HARTSEL(1048575))} })

(***************************************************************************)
(* SpecHarts: one call of rvdbg_discover_harts on a freshly created handle, *)
(* against Debug Modules with 0 to MaxTargetHarts harts and hartsel fields  *)
(* of several widths.                                                       *)
(***************************************************************************)
MaxTargetHarts == 10    \* harts behind the Debug Module
MaxFailHarts == 19      \* DMI accesses of a discovery answered before the one that fails

\* Implemented hartsel bits: none, 1, 2, 4 and all 20.
HartMasks == {0, 1, 3, 15, 1048575}

InitHarts ==
    /\ \E hartselmask \in HartMasks, nharts \in 0 .. MaxTargetHarts, gate \in BOOLEAN,
          hartsel \in {0, 1} :
          /\ nharts <= hartselmask + 1
          /\ hartsel <= hartselmask
          /\ dm = [Dm0 EXCEPT !.hartselmask = hartselmask, !.nharts = nharts,
                              !.dmactivegate = gate, !.hartsel = hartsel]
    /\ dmi = [Handle0 EXCEPT !.abits = 7, !.idle = 1, !.debug_version = 1]
    /\ last_dmi = DmiZero
    /\ tap = Tap0
    /\ pc = "start"
    /\ call = [fn |-> "none"]
    /\ ret = RetAbs0
    /\ trace = <<>>
    /\ ghost = Ghost0

DiscoverHarts ==
    /\ pc = "start"
    /\ \E f \in -1 .. MaxFailHarts :
          LET d0 == [dm EXCEPT !.dmifail = f]
          IN  \E r \in {rvdbg_discover_harts(d0, dmi)} :
              /\ dm' = r.dm
              /\ dmi' = r.h
              /\ ret' = [fn |-> "discover_harts", rv |-> r.rv]
              /\ call' = [fn |-> "discover_harts", dm0 |-> d0]
    /\ pc' = "done"
    /\ UNCHANGED <<last_dmi, tap, trace, ghost>>

NextHarts == DiscoverHarts

SpecHarts == InitHarts /\ [][NextHarts]_vars

\* The dmstatus reads of a DMI log that found the selected hart existent.
ExistentReads(log) ==
    {k \in 1 .. Len(log) :
        /\ log[k][1] = "r" /\ log[k][2] = DMI_REG_DMSTATUS
        /\ DMSTATUS_GET_ANYNONEXISTENT(log[k][3]) = 0}

\* The number of (write hartsel, read dmstatus) probes of a discovery log:
\* the log is write, read dmcontrol, the probes, write dmcontrol.
NumProbes(log) == (Len(log) - 3) \div 2

\* C16: after rvdbg_discover_harts has returned 0 on a fresh handle, the
\* probes wrote hartsel = 0, 1, 2, ... in order and each read dmstatus;
\* num_harts is the number of probes that read anynonexistent = 0; only the
\* last probe can have read anynonexistent = 1, and if it did not, probing
\* stopped past index hartsellen or with 8 harts recorded.  num_harts is at
\* most RVDBG_MAX_HARTS in every state.
C16_NumHarts ==
    /\ dmi.num_harts <= RVDBG_MAX_HARTS
    /\ (pc = "done" /\ ret.fn = "discover_harts" /\ ret.rv = 0) =>
          LET n == NumProbes(dm.log)
              hartsellen == DMCONTROL_GET_HARTSEL(dm.log[2][3])
          IN  /\ Len(dm.log) = 2 * n + 3 /\ n >= 1
              /\ dm.log[2][1] = "r" /\ dm.log[2][2] = DMI_REG_DMCONTROL
              /\ \A i \in 0 .. n - 1 :
                    /\ dm.log[3 + 2 * i] = <<"w", DMI_REG_DMCONTROL, DMCONTROL_SET_HARTSEL(i), 0>>
                    /\ dm.log[4 + 2 * i][1] = "r" /\ dm.log[4 + 2 * i][2] = DMI_REG_DMSTATUS
                    /\ i < n - 1 => DMSTATUS_GET_ANYNONEXISTENT(dm.log[4 + 2 * i][3]) = 0
              /\ dmi.num_harts = Cardinality(ExistentReads(dm.log))
              /\ dmi.num_harts \in {n - 1, n}
              /\ dmi.num_harts = n => (n = hartsellen + 1 \/ n = RVDBG_MAX_HARTS)
              /\ n <= hartsellen + 1

\* C16 witness: a Debug Module with more than eight harts was discovered
\* and eight harts were recorded.
C16_Witness ==
    /\ pc = "done" /\ ret.fn = "discover_harts" /\ ret.rv = 0
    /\ call.dm0.nharts > RVDBG_MAX_HARTS
    /\ dmi.num_harts = RVDBG_MAX_HARTS

\* C17: after rvdbg_discover_harts has returned 0 with 1 to 8 harts found,
\* the hartsel value last written to dmcontrol is 0 and current_hart refers
\* to harts[0].
C17_HartZeroSelected ==
    (pc = "done" /\ ret.fn = "discover_harts" /\ ret.rv = 0 /\ dmi.num_harts \in 1 .. 8) =>
        /\ dm.log[Len(dm.log)][1] = "w" /\ dm.log[Len(dm.log)][2] = DMI_REG_DMCONTROL
        /\ DMCONTROL_GET_HARTSEL(dm.log[Len(dm.log)][3]) = 0
        /\ dmi.current_hart = <<0>>

\* C18: after a successful discovery current_hart, if set, points at
\* harts[k] with 0 <= k < num_harts; it is not set to harts[0] when no hart
\* was found.
C18_CurrentHartInRange ==
    (pc = "done" /\ ret.fn = "discover_harts" /\ ret.rv = 0 /\ dmi.current_hart # <<>>) =>
        dmi.current_hart[1] \in 0 .. dmi.num_harts - 1

(***************************************************************************)
(* Bring-up: rvdbg_set_debug_version, rvdbg_dtm_init,                       *)
(* rvdbg013_jtag_dp_handler.                                                *)
(***************************************************************************)
RISCV_DEBUG_VERSION_011 == 0
RISCV_DEBUG_VERSION_013 == 1
RISCV_DEBUG_VERSION_UNKNOWN == 15

\* #define DTMCS_GET_VERSION(x) (x & 0xf)
DTMCS_GET_VERSION(x) == Bits(x, 0, 4)
\* #define DTMCS_GET_ABITS(x) ((x>>4) & 0x3f)
DTMCS_GET_ABITS(x) == Bits(x, 4, 6)
\* #define DTMCS_GET_IDLE(x) ((x>>12) & 0x7)
DTMCS_GET_IDLE(x) == Bits(x, 12, 3)
\* #define DMSTATUS_GET_VERSION(x) DTMCS_GET_VERSION(x)
DMSTATUS_GET_VERSION(x) == DTMCS_GET_VERSION(x)
\* #define DMSTATUS_GET_AUTHENTICATED(x) ((x >> 7) & 0x1)
DMSTATUS_GET_AUTHENTICATED(x) == Bits(x, 7, 1)
\* #define DMSTATUS_GET_IMPEBREAK(x) ((x >> 22) & 0x1)
DMSTATUS_GET_IMPEBREAK(x) == Bits(x, 22, 1)

\* Mutant: version 0.11 is accepted as well.
VersionSupported_With011(version) ==
    version \in {RISCV_DEBUG_VERSION_013, RISCV_DEBUG_VERSION_011}

\* The one case of the switch that does not return -1.
VersionSupported(version) == version = RISCV_DEBUG_VERSION_013

\* int rvdbg_set_debug_version(dmi, uint8_t version)
rvdbg_set_debug_version(h, version) ==
    IF VersionSupported(version)
    THEN [h |-> [h EXCEPT !.debug_version = version], rv |-> 0]
    ELSE [h |-> h, rv |-> -1]

\* One 32-bit scan of dtmcs with IR = IR_DTMCS, then back to IR_DMI or on
\* to the next step: recorded in the log; the Debug Module behind the DTM is
\* not touched by it.
DtmcsScan(d, value) == [d EXCEPT !.log = Append(@, <<"dtmcs", IR_DTMCS, value, 0>>)]

\* The version handling of rvdbg_dtm_init: the result of
\* rvdbg_set_debug_version is ignored.
InitVersion(h, dmstatus) ==
    LET version == DMSTATUS_GET_VERSION(dmstatus)
    IN  IF version = 0 THEN h
        ELSE IF (version - 1) % 256 # h.debug_version
                /\ version # RISCV_DEBUG_VERSION_UNKNOWN
        THEN rvdbg_set_debug_version(h, version).h
        ELSE h

\* Mutant: authentication is not looked at.
InitRejects_Never(dmstatus) == FALSE

\* if (!DMSTATUS_GET_AUTHENTICATED(dmstatus)) return -1;
InitRejects(dmstatus) == DMSTATUS_GET_AUTHENTICATED(dmstatus) = 0

\* rvdbg_dtm_init after the authentication check.
InitAuthenticated(d, h, dmstatus) ==
    The({ IF n.rv < 0 THEN [dm |-> n.dm, rv |-> -1, h |-> h] ELSE
    The({ IF s.rv < 0 THEN [dm |-> s.dm, rv |-> -1, h |-> s.h] ELSE
    The({ [dm |-> v.dm, rv |-> IF v.rv < 0 THEN -1 ELSE 0, h |-> v.h]
        : v \in {rvdbg_discover_harts(s.dm, s.h)} })
        : s \in {rvdbg_select_mem_and_csr_access_impl(n.dm,
                    [h EXCEPT !.impebreak = DMSTATUS_GET_IMPEBREAK(dmstatus) = 1])} })
        : n \in {DmiRead(d, DMI_REG_NEXTDM_ADDR)} })

\* Mutant: init starts without the hard reset of the DMI.
rvdbg_dtm_init_NoHardReset(d, h) ==
    The({ IF r.rv < 0 THEN [dm |-> r.dm, rv |-> -1, h |-> h] ELSE
          IF InitRejects(r.data)
          THEN [dm |-> r.dm, rv |-> -1, h |-> InitVersion(h, r.data)]
          ELSE InitAuthenticated(r.dm, InitVersion(h, r.data), r.data)
        : r \in {DmiRead(d, DMI_REG_DMSTATUS)} })

\* int rvdbg_dtm_init(dmi)
rvdbg_dtm_init(d, h) ==
    The({ IF r.rv < 0 THEN [dm |-> r.dm, rv |-> -1, h |-> h] ELSE
          IF InitRejects(r.data)
          THEN [dm |-> r.dm, rv |-> -1, h |-> InitVersion(h, r.data)]
          ELSE InitAuthenticated(r.dm, InitVersion(h, r.data), r.data)
        : r \in {DmiRead(DtmcsScan(d, DTMCS_DMIHARDRESET), DMI_REG_DMSTATUS)} })

\* void rvdbg013_jtag_dp_handler(dev).  dtmcontrol is shifted into dtmcs
\* before it has been assigned: `garbage` is what its low 32 bits held.
\* stage tells how far the handler came; freed, whether it freed the handle.
rvdbg013_jtag_dp_handler(d, idcode, garbage) ==
    The({ IF sv.rv < 0
          THEN [dm |-> DtmcsScan(d, garbage), h |-> sv.h, stage |-> "version", freed |-> TRUE]
          ELSE
    The({ [dm |-> i.dm, h |-> i.h, freed |-> TRUE,
           stage |-> IF i.rv < 0 THEN "init_failed" ELSE "init_ok"]
        : i \in {rvdbg_dtm_init(DtmcsScan(d, garbage),
                    [sv.h EXCEPT !.idle = DTMCS_GET_IDLE(d.dtmcs),
                                 !.abits = DTMCS_GET_ABITS(d.dtmcs)])} })
        : sv \in {rvdbg_set_debug_version([Handle0 EXCEPT !.idcode = idcode],
                                          DTMCS_GET_VERSION(d.dtmcs))} })

(***************************************************************************)
(* SpecVersion: one call of rvdbg_set_debug_version with any uint8_t        *)
(* version, or one run of rvdbg013_jtag_dp_handler against a DTM whose      *)
(* dtmcs reports any of the sixteen version codes.                          *)
(***************************************************************************)
\* What the unassigned dtmcontrol can shift into dtmcs: only dmireset and
\* dmihardreset are writable there.
Garbage == {0, DTMCS_DMIRESET, DTMCS_DMIHARDRESET}

InitVersionSpec ==
    /\ \E version \in 0 .. 15, idle \in IdleVals, authenticated \in BOOLEAN,
          hv \in {RISCV_DEBUG_VERSION_011, RISCV_DEBUG_VERSION_013, RISCV_DEBUG_VERSION_UNKNOWN},
          harts \in {<<1, 0>>, <<2, 3>>}, abits \in {7, 31} :
          /\ dm = [Dm0 EXCEPT !.dtmcs = DtmcsWord(version, abits, idle),
                              !.authenticated = authenticated,
                              !.nharts = harts[1], !.hartselmask = harts[2]]
          /\ dmi = [Handle0 EXCEPT !.debug_version = hv]
    /\ last_dmi = DmiZero
    /\ tap = Tap0
    /\ pc = "start"
    /\ call = [fn |-> "none"]
    /\ ret = RetAbs0
    /\ trace = <<>>
    /\ ghost = Ghost0

SetDebugVersion ==
    /\ pc = "start"
    /\ \E version \in 0 .. 255 :
          \E r \in {rvdbg_set_debug_version(dmi, version)} :
              /\ dmi' = r.h
              /\ ret' = [fn |-> "set_debug_version", rv |-> r.rv]
              /\ call' = [fn |-> "set_debug_version", version |-> version, h0 |-> dmi]
    /\ pc' = "done"
    /\ UNCHANGED <<dm, last_dmi, tap, trace, ghost>>

DpHandler ==
    /\ pc = "start"
    /\ \E garbage \in Garbage, f \in -1 .. MaxFail :
          LET d0 == [dm EXCEPT !.dmifail = f]
          IN  \E r \in {rvdbg013_jtag_dp_handler(d0, 1, garbage)} :
              /\ dm' = r.dm
              /\ dmi' = r.h
              /\ ret' = [fn |-> "dp_handler", stage |-> r.stage, freed |-> r.freed]
              /\ call' = [fn |-> "dp_handler", dm0 |-> d0]
    /\ pc' = "done"
    /\ UNCHANGED <<last_dmi, tap, trace, ghost>>

NextVersion == SetDebugVersion \/ DpHandler

SpecVersion == InitVersionSpec /\ [][NextVersion]_vars

\* The DMI accesses (reads and writes of Debug Module registers) of a log.
DmiTraffic(log) == {k \in 1 .. Len(log) : log[k][1] \in {"r", "w"}}

\* C19: rvdbg_set_debug_version(v) returns 0 and sets debug_version only for
\* v = 1; for every other v in 0..255 it returns -1 and leaves the handle as
\* it was.  A dtmcs whose version field is not 1 makes
\* rvdbg013_jtag_dp_handler give the device up with no DMI access issued.
C19_OnlyVersion013 ==
    /\ (pc = "done" /\ ret.fn = "set_debug_version") =>
          IF call.version = 1
          THEN ret.rv = 0 /\ dmi = [call.h0 EXCEPT !.debug_version = 1]
          ELSE ret.rv = -1 /\ dmi = call.h0
    /\ (pc = "done" /\ ret.fn = "dp_handler") =>
          IF DTMCS_GET_VERSION(call.dm0.dtmcs) = 1
          THEN ret.stage # "version"
          ELSE /\ ret.stage = "version"
               /\ ret.freed
               /\ DmiTraffic(dm.log) = {}

\* C19 witness: rvdbg_set_debug_version(0), version 0.11, was refused on a
\* handle that had version 0.13 set.
C19_Witness ==
    /\ pc = "done" /\ ret.fn = "set_debug_version"
    /\ call.version = RISCV_DEBUG_VERSION_011 /\ ret.rv = -1
    /\ dmi.debug_version = RISCV_DEBUG_VERSION_013

(***************************************************************************)
(* SpecInit: one call of rvdbg_dtm_init on a handle as                      *)
(* rvdbg013_jtag_dp_handler passes it, against Debug Modules that differ in *)
(* authentication, version, capabilities and harts.                         *)
(***************************************************************************)
MaxFailInit == 15       \* DMI accesses of an init answered before the one that fails

\* dmstatus.version: none, 0.11, 0.13, a reserved code, 15.
DmVersions == {0, 1, 2, 3, 15}

\* <<datacount, progbufsize>> as abstractcs reports them.
Capabilities == {<<12, 2>>, <<1, 0>>, <<1, 1>>, <<0, 2>>, <<12, 17>>}

InitInit ==
    /\ \E authenticated \in BOOLEAN, version \in DmVersions, impebreak \in BOOLEAN,
          cap \in Capabilities, nharts \in 0 .. 2, hartselmask \in {0, 3},
          nextdm \in {0, 1} :
          /\ nharts <= hartselmask + 1
          /\ dm = [Dm0 EXCEPT !.authenticated = authenticated, !.version = version,
                              !.impebreak = impebreak, !.datacount = cap[1],
                              !.progbufsize = cap[2], !.nharts = nharts,
                              !.hartselmask = hartselmask, !.nextdm = nextdm]
    /\ dmi = [Handle0 EXCEPT !.idcode = 1, !.debug_version = RISCV_DEBUG_VERSION_013,
                             !.idle = DTMCS_GET_IDLE(Dm0.dtmcs),
                             !.abits = DTMCS_GET_ABITS(Dm0.dtmcs)]
    /\ last_dmi = DmiZero
    /\ tap = Tap0
    /\ pc = "start"
    /\ call = [fn |-> "none"]
    /\ ret = RetAbs0
    /\ trace = <<>>
    /\ ghost = Ghost0

DtmInit ==
    /\ pc = "start"
    /\ \E f \in -1 .. MaxFailInit :
          LET d0 == [dm EXCEPT !.dmifail = f]
          IN  \E r \in {rvdbg_dtm_init(d0, dmi)} :
              /\ dm' = r.dm
              /\ dmi' = r.h
              /\ ret' = [fn |-> "dtm_init", rv |-> r.rv]
              /\ call' = [fn |-> "dtm_init", dm0 |-> d0, h0 |-> dmi]
    /\ pc' = "done"
    /\ UNCHANGED <<last_dmi, tap, trace, ghost>>

NextInit == DtmInit

SpecInit == InitInit /\ [][NextInit]_vars

\* The log of an init whose dmstatus read was answered with authenticated = 0.
ReadUnauthenticated(log) ==
    /\ Len(log) >= 2
    /\ log[2][1] = "r" /\ log[2][2] = DMI_REG_DMSTATUS /\ log[2][4] = 0
    /\ Bits(log[2][3], 7, 1) = 0

\* C20: if the dmstatus value read by rvdbg_dtm_init has authenticated = 0,
\* init returns -1, the dmstatus read is the last DMI access it issued (no
\* nextdm read, no abstractcs read, no abstractauto probe, no hart
\* discovery), and no operation-table entry is installed.
C20_UnauthenticatedStops ==
    (pc = "done" /\ ret.fn = "dtm_init" /\ ReadUnauthenticated(dm.log)) =>
        /\ ret.rv = -1
        /\ DmiTraffic(dm.log) = {2}
        /\ Len(dm.log) = 2
        /\ dmi.read_csr = Null /\ dmi.write_csr = Null
        /\ dmi.read_mem = Null /\ dmi.write_mem = Null
        /\ dmi.num_harts = 0 /\ dmi.current_hart = <<>>

\* C20 witness: init was refused by an unauthenticated Debug Module that has
\* a program buffer and a hart.
C20_Witness ==
    /\ pc = "done" /\ ret.fn = "dtm_init" /\ ReadUnauthenticated(dm.log)
    /\ ret.rv = -1
    /\ call.dm0.progbufsize = 2 /\ call.dm0.datacount = 12 /\ call.dm0.nharts = 1

(***************************************************************************)
(* Reference counting: rvdbg_dtm_ref, rvdbg_dtm_unref.                      *)
(***************************************************************************)
\* void rvdbg_dtm_ref(dtm) { dtm->refcnt++; }
rvdbg_dtm_ref(h) == [h EXCEPT !.refcnt = @ + 1]

\* void rvdbg_dtm_unref(dtm) { if (--dtm->refcnt == 0) free(dtm); }
rvdbg_dtm_unref(h) ==
    [h |-> [h EXCEPT !.refcnt = @ - 1], freed |-> (h.refcnt - 1 = 0)]

\* What dtm->refcnt can read as once the handle has been freed: the value
\* left there, or what the allocator or a new owner of the memory put there.
StaleRefcnt(h) == {h.refcnt, 0, 1}

(***************************************************************************)
(* SpecRef: callers apply rvdbg_dtm_ref and rvdbg_dtm_unref to a calloc'ed  *)
(* handle, never more unrefs than refs.  trace is the sequence of calls,    *)
(* ret counts the times the handle was freed and the calls that were        *)
(* applied to it after it had been freed.                                   *)
(***************************************************************************)
MaxRefOps == 8          \* ref / unref calls applied to the handle

Count(seq, x) == Cardinality({k \in 1 .. Len(seq) : seq[k] = x})

InitRef ==
    /\ dmi = Handle0
    /\ dm = Dm0
    /\ last_dmi = DmiZero
    /\ tap = Tap0
    /\ pc = "start"
    /\ call = [fn |-> "none"]
    /\ ret = [fn |-> "refcount", nfree |-> 0, after |-> 0]
    /\ trace = <<>>
    /\ ghost = Ghost0

DtmRef ==
    /\ Len(trace) < MaxRefOps
    /\ \E v \in (IF ret.nfree = 0 THEN {dmi.refcnt} ELSE StaleRefcnt(dmi)) :
          dmi' = rvdbg_dtm_ref([dmi EXCEPT !.refcnt = v])
    /\ ret' = [ret EXCEPT !.after = IF ret.nfree > 0 THEN @ + 1 ELSE @]
    /\ trace' = Append(trace, "ref")
    /\ UNCHANGED <<dm, last_dmi, tap, pc, call, ghost>>

DtmUnref ==
    /\ Len(trace) < MaxRefOps
    /\ Count(trace, "unref") < Count(trace, "ref")
    /\ \E v \in (IF ret.nfree = 0 THEN {dmi.refcnt} ELSE StaleRefcnt(dmi)) :
          \E r \in {rvdbg_dtm_unref([dmi EXCEPT !.refcnt = v])} :
              /\ dmi' = r.h
              /\ ret' = [ret EXCEPT !.after = IF ret.nfree > 0 THEN @ + 1 ELSE @,
                                    !.nfree = IF r.freed THEN @ + 1 ELSE @]
    /\ trace' = Append(trace, "unref")
    /\ UNCHANGED <<dm, last_dmi, tap, pc, call, ghost>>

NextRef == DtmRef \/ DtmUnref

SpecRef == InitRef /\ [][NextRef]_vars

C22_HandleKeptOnSuccess ==
    (pc = "done" /\ ret.fn = "dp_handler") =>
        /\ ret.stage \in {"version", "init_failed"} => ret.freed
        /\ ret.stage = "init_ok" => ~ret.freed

(***************************************************************************)
(* SpecLive: the loops of the engine, one iteration per step, against a     *)
(* target that chooses at every step: the Debug Module completes a DMI      *)
(* request when it likes, a command stays busy as long as it likes and ends *)
(* with the cmderr it likes.  Nothing is counted, so that a loop may go     *)
(* round for ever; the steps of the engine are weakly fair (the engine      *)
(* never stops by itself inside a call), and so is the Debug Module's       *)
(* completion of a request.  A behaviour exercises one layer, named in      *)
(* trace: the scans of DMI accesses ("low") or the DMI accesses of abstract *)
(* commands ("abs").                                                        *)
(***************************************************************************)
\* The bookkeeping of the Debug Module record that is of no use here.
Forget(d) == [d EXCEPT !.log = <<>>, !.nexec = 0, !.script = <<>>]

LiveRet0 == [fn |-> "none", rv |-> 0]

InitLive ==
    /\ \E i \in IdleVals : dmi = [Handle0 EXCEPT !.abits = 7, !.idle = i, !.debug_version = 1]
    /\ last_dmi = DmiZero
    /\ tap = Tap0
    /\ dm = [Dm0 EXCEPT !.regs = Regs1]
    /\ pc = "idle"
    /\ call = [fn |-> "none", dmi_cmd |-> DmiZero, command |-> 0, cmderror |-> 0]
    /\ ret = LiveRet0
    /\ trace \in {<<"low">>, <<"abs">>}
    /\ ghost = Ghost0

\* A caller enters rvdbg_dmi_low_access_jtag with a WRITE or READ payload.
LiveLowAccess ==
    /\ pc = "idle"
    /\ trace = <<"low">>
    /\ \E addr \in {DMI_REG_ABSTRACTDATA_BEGIN}, data \in DmiData :
          \E cmd \in {WritePayload(addr, data), ReadPayload(addr)} :
              call' = [fn |-> "low_access", dmi_cmd |-> cmd, command |-> 0, cmderror |-> 0]
    /\ pc' = "retry"
    /\ ret' = LiveRet0
    /\ UNCHANGED <<dmi, last_dmi, tap, dm, trace, ghost>>

\* retry: jtag_dev_shift_dr(...); switch (DMI_GET_OP(dmi_ret)) { ... }
LiveShift ==
    /\ pc = "retry"
    /\ LET dmi_ret == TapCapture(tap)
           t1 == TapUpdate(tap, call.dmi_cmd, 0, dmi.abits)
           arm == DmiSwitch(DMI_GET_OP(dmi_ret))
       IN  IF arm = "intr" THEN
              /\ tap' = t1
              /\ pc' = "intr"
              /\ UNCHANGED <<last_dmi, ret>>
           ELSE IF arm = "ok" THEN
              /\ tap' = t1
              /\ last_dmi' = StoreLastDmi(call.dmi_cmd)
              /\ ret' = [fn |-> "low_access", rv |-> 0]
              /\ pc' = "idle"
           ELSE
              /\ tap' = TapRun(t1, rvdbg_dmi_reset_jtag(FALSE))
              /\ ret' = [fn |-> "low_access", rv |-> -1]
              /\ pc' = "idle"
              /\ UNCHANGED last_dmi
    /\ UNCHANGED <<dmi, dm, call, trace, ghost>>

\* case DMISTAT_OP_INTERRUPTED: rvdbg_dmi_reset_jtag(dmi, false);
LiveIntrReset ==
    /\ pc = "intr"
    /\ tap' = TapRun(tap, rvdbg_dmi_reset_jtag(FALSE))
    /\ pc' = "replay"
    /\ UNCHANGED <<dmi, last_dmi, dm, call, ret, trace, ghost>>

\* jtag_dev_shift_dr(dev, &dmi_ret, &rvdbg_jtag->last_dmi, ...); goto retry;
LiveReplay ==
    /\ pc = "replay"
    /\ tap' = TapRun(TapUpdate(tap, ReplayWord, 0, dmi.abits), IdleCycles)
    /\ pc' = "retry"
    /\ UNCHANGED <<dmi, last_dmi, dm, call, ret, trace, ghost>>

\* The Debug Module completes the request in progress, or fails it.
LiveDmComplete ==
    /\ tap.inflight # <<>>
    /\ LET w == tap.inflight[1].word
       IN  \/ /\ w.op = DMI_OP_WRITE
              /\ dm' = Forget(DmWrite(dm, w.addr, w.data))
              /\ tap' = [tap EXCEPT !.inflight = <<>>]
           \/ /\ w.op = DMI_OP_READ
              /\ dm' = Forget(DmReadEffect(dm, w.addr))
              /\ tap' = [tap EXCEPT !.inflight = <<>>, !.rdata = DmReadValue(dm, w.addr)]
           \/ /\ \E st \in {DMISTAT_OP_FAILED, DMISTAT_RESERVED} :
                    tap' = [tap EXCEPT !.inflight = <<>>, !.sticky = st]
              /\ UNCHANGED dm
    /\ UNCHANGED <<dmi, last_dmi, pc, call, ret, trace, ghost>>

\* A caller enters rvdbg_abstract_command_run(dmi, command).
LiveRunCommand ==
    /\ pc = "idle"
    /\ trace = <<"abs">>
    /\ \E command \in AbsCommands :
          call' = [fn |-> "abstract_command_run", dmi_cmd |-> DmiZero,
                   command |-> command, cmderror |-> 0]
    /\ pc' = "acr_write"
    /\ ret' = LiveRet0
    /\ UNCHANGED <<dmi, last_dmi, tap, dm, trace, ghost>>

\* retry: if (rvdbg_dmi_write(dmi, DMI_REG_ABSTRACT_CMD, command) < 0) return -1;
\* The target chooses how the execution will end (s) and whether the access
\* fails (f).
LiveAcrWrite ==
    /\ pc = "acr_write"
    /\ \E s \in AbsSteps, f \in {-1, 0} :
          \E w \in {DmiWrite([dm EXCEPT !.script = <<s>>, !.dmifail = f],
                             DMI_REG_ABSTRACT_CMD, call.command)} :
              /\ dm' = Forget(w.dm)
              /\ IF w.rv < 0
                 THEN pc' = "idle" /\ ret' = [fn |-> "abstract_command_run", rv |-> -1]
                 ELSE pc' = "acr_poll" /\ UNCHANGED ret
    /\ UNCHANGED <<dmi, last_dmi, tap, call, trace, ghost>>

\* One iteration of do { if (rvdbg_dmi_read(dmi, DMI_REG_ABSTRACT_CS,
\* &abstractcs) < 0) return -1; } while (ABSTRACTCS_GET_BUSY(abstractcs));
\* and the statements up to the clearing write.  A busy command may go on
\* running (more): it then answers busy to this poll and MaxBusy + 1 further
\* ones, so that a command kept busy for ever is a behaviour whose polls
\* change the state.
LiveAcrPoll ==
    /\ pc = "acr_poll"
    /\ \E more \in BOOLEAN, f \in {-1, 0} :
          \E r \in {DmiRead([dm EXCEPT !.busy = IF more /\ @ > 0 THEN MaxBusy + 2 ELSE @,
                                       !.dmifail = f],
                            DMI_REG_ABSTRACT_CS)} :
              /\ dm' = Forget(r.dm)
              /\ IF r.rv < 0
                 THEN /\ pc' = "idle" /\ UNCHANGED call
                      /\ ret' = [fn |-> "abstract_command_run", rv |-> -1]
                 ELSE IF ABSTRACTCS_GET_BUSY(r.data) = 1
                 THEN pc' = "acr_poll" /\ UNCHANGED <<call, ret>>
                 ELSE IF ABSTRACTCS_GET_CMDERR(r.data) = ABSTRACTCMD_ERR_NONE
                 THEN /\ pc' = "idle" /\ UNCHANGED call
                      /\ ret' = [fn |-> "abstract_command_run", rv |-> ABSTRACTCMD_ERR_NONE]
                 ELSE /\ pc' = "acr_clear"
                      /\ call' = [call EXCEPT !.cmderror = ABSTRACTCS_GET_CMDERR(r.data)]
                      /\ UNCHANGED ret
    /\ UNCHANGED <<dmi, last_dmi, tap, trace, ghost>>

\* if (rvdbg_dmi_write(dmi, DMI_REG_ABSTRACT_CS, abstractcs) < 0) return -1;
\* if (cmderror == ABSTRACTCMD_ERR_BUSY) goto retry; ... return cmderror;
LiveAcrClear ==
    /\ pc = "acr_clear"
    /\ \E f \in {-1, 0} :
          \E c \in {DmiWrite([dm EXCEPT !.dmifail = f], DMI_REG_ABSTRACT_CS, ClearCmderrWord)} :
              /\ dm' = Forget(c.dm)
              /\ IF c.rv < 0
                 THEN pc' = "idle" /\ ret' = [fn |-> "abstract_command_run", rv |-> -1]
                 ELSE IF RetryOnBusy(call.cmderror)
                 THEN pc' = "acr_write" /\ UNCHANGED ret
                 ELSE pc' = "idle" /\ ret' = [fn |-> "abstract_command_run", rv |-> call.cmderror]
    /\ UNCHANGED <<dmi, last_dmi, tap, call, trace, ghost>>

NextLive ==
    \/ LiveLowAccess
    \/ LiveShift
    \/ LiveIntrReset
    \/ LiveReplay
    \/ LiveDmComplete
    \/ LiveRunCommand
    \/ LiveAcrWrite
    \/ LiveAcrPoll
    \/ LiveAcrClear

SpecLive ==
    /\ InitLive
    /\ [][NextLive]_vars
    /\ WF_vars(LiveShift) /\ WF_vars(LiveIntrReset) /\ WF_vars(LiveReplay)
    /\ WF_vars(LiveAcrWrite) /\ WF_vars(LiveAcrPoll) /\ WF_vars(LiveAcrClear)
    /\ WF_vars(LiveDmComplete)

\* C23: every DMI access and every abstract command that has been entered
\* returns: none of the engine's retry and poll loops goes round for ever,
\* whatever the target does.
C23_EveryCallReturns == (pc # "idle") ~> (pc = "idle")

(***************************************************************************)
(* SpecRoundTrip: rvdbg_write_single_reg(reg, w) followed at once by        *)
(* rvdbg_read_single_reg(reg), astate NONE, for data words up to the        *)
(* largest the model's integers hold (bit 30 set, bit 31 clear).            *)
(***************************************************************************)
Words32 == {0, 1, Pow2_30 - 1, Pow2_30, Pow2_30 + 2, 2147483647}

InitRoundTrip ==
    /\ \E regs \in {Regs1, Regs2} :
          /\ dmi = HandleFor(FALSE, FALSE)
          /\ dm = DmFor(FALSE, regs)
    /\ last_dmi = DmiZero
    /\ tap = Tap0
    /\ pc = "start"
    /\ call = [fn |-> "none"]
    /\ ret = RetAbs0
    /\ trace = <<>>
    /\ ghost = Ghost0

WriteThenRead ==
    /\ pc = "start"
    /\ \E reg \in RegNos, value \in Words32, s \in FaultScripts, f \in -1 .. MaxFail :
          LET d0 == [dm EXCEPT !.script = s, !.dmifail = f]
          IN  \E w \in {rvdbg_write_single_reg(d0, reg, value, "NONE")} :
              \E r \in {IF w.rv < 0 THEN [dm |-> w.dm, rv |-> -1, out |-> Unset]
                        ELSE rvdbg_read_single_reg(w.dm, reg, "NONE")} :
                  /\ dm' = r.dm
                  /\ ret' = [fn |-> "write_then_read", rv |-> r.rv, wrv |-> w.rv, out |-> r.out]
                  /\ call' = [fn |-> "write_then_read", reg |-> reg, value |-> value, dm0 |-> d0]
    /\ pc' = "done"
    /\ UNCHANGED <<dmi, last_dmi, tap, trace, ghost>>

NextRoundTrip == WriteThenRead

SpecRoundTrip == InitRoundTrip /\ [][NextRoundTrip]_vars

\* C24: a successful rvdbg_write_single_reg(reg, w) followed, with nothing
\* in between, by a successful rvdbg_read_single_reg(reg) yields w, for every
\* register of the hart and every 32-bit w.
C24_RoundTrip ==
    (pc = "done" /\ ret.fn = "write_then_read" /\ ret.wrv = 0 /\ ret.rv = 0) =>
        ret.out = call.value

(***************************************************************************)
(* SpecPayload: the scan word rvdbg_dmi_write builds, for every address of  *)
(* a 7-bit DMI and data words with and without bit 30.                      *)
(***************************************************************************)
InitPayload ==
    /\ dmi = [Handle0 EXCEPT !.abits = 7, !.idle = 1, !.debug_version = 1]
    /\ dm = Dm0
    /\ last_dmi = DmiZero
    /\ tap = Tap0
    /\ pc = "start"
    /\ \E addr \in 0 .. Pow2(dmi.abits) - 1, data \in Words32 :
          call = [fn |-> "dmi_write", addr |-> addr, data |-> data]
    /\ ret = [fn |-> "none", word |-> DmiZero]
    /\ trace = <<>>
    /\ ghost = Ghost0

BuildWritePayload ==
    /\ pc = "start"
    /\ ret' = [fn |-> "dmi_write", word |-> WritePayload(call.addr, call.data)]
    /\ pc' = "done"
    /\ UNCHANGED <<dmi, dm, last_dmi, tap, call, trace, ghost>>

NextPayload == BuildWritePayload

SpecPayload == InitPayload /\ [][NextPayload]_vars

\* C25: the payload rvdbg_dmi_write(addr, data) shifts has op = 2 in bits
\* 1:0, all 32 bits of data in bits 33:2 and addr in the bits from 34 up.
C25_PayloadKeepsData ==
    (pc = "done" /\ ret.fn = "dmi_write") =>
        /\ ret.word.op = 2
        /\ ret.word.data = call.data
        /\ ret.word.addr = call.addr

\* C26: the first low access of rvdbg_dmi_read shifts the READ payload
\* addressed to addr; once it has returned 0 the second one shifts the NOP
\* payload with address 0, and a read that returns 0 stores the data of the
\* response to the last NOP scan, which is the content of Debug Module
\* register addr, however many responses were interrupted.  If the READ
\* access fails, no NOP is shifted and nothing is stored.
C26_ReadIsReadThenNop ==
    (ret.valid /\ ret.fn = "read") =>
        /\ (~ret.done) =>
              /\ ret.rv = 0 /\ ret.cmd = [addr |-> call.addr, data |-> 0, op |-> 1]
              /\ ret.trace[Len(ret.trace)] = <<"dmi", 34 + dmi.abits, ret.cmd>>
        /\ (ret.done /\ ret.rv = 0) =>
              /\ ret.cmd = [addr |-> 0, data |-> 0, op |-> 0]
              /\ ret.trace[Len(ret.trace)] = <<"dmi", 34 + dmi.abits, ret.cmd>>
              /\ ret.out = tap.rdata
              /\ ret.out = DmReadValue(dm, call.addr)
        /\ (ret.done /\ ret.rv = -1 /\ ret.cmd.op = 1) =>
              /\ \A k \in 1 .. Len(ret.trace) :
                    ret.trace[k][1] = "dmi" => ret.trace[k][3].op # 0
              /\ ret.out = Unset

\* C26 witness: a dmi_read of data0 returned the non-zero word a dmi_write
\* had put there, after its NOP scan had been answered interrupted.
C26_Witness ==
    /\ ret.valid /\ ret.fn = "read" /\ ret.done /\ ret.rv = 0
    /\ call.nintr >= 1
    /\ ret.out = 1 /\ dm.data0 = 1

\* C27: last_dmi changes only in the step in which a scan of the caller's
\* payload is answered no-error, the step in which the access returns 0, and
\* it becomes that payload; a step in which an access returns -1 and the
\* steps of an interrupted round leave it unchanged; the word scanned in an
\* interrupted round is the stored last_dmi.
C27_LastDmiFrame ==
    [][ /\ last_dmi' # last_dmi =>
              /\ pc = "retry" /\ DMI_GET_OP(TapCapture(tap)) = 0
              /\ last_dmi' = call.dmi_cmd
              /\ ret'.valid /\ ret'.rv = 0
        /\ (pc = "retry" /\ ret'.valid /\ ret'.rv = -1) => last_dmi' = last_dmi
        /\ (pc = "retry" /\ pc' = "intr") => last_dmi' = last_dmi
        /\ pc = "intr" => last_dmi' = last_dmi
        /\ (pc = "replay" /\ pc' = "retry") =>
              /\ last_dmi' = last_dmi
              /\ Len(trace') > Len(trace)
              /\ trace'[Len(trace) + 1] = <<"dmi", 34 + dmi.abits, last_dmi>>
      ]_vars

\* C27 witness: an access returned -1 after an interrupted round, with
\* last_dmi still holding the payload of an earlier access.
C27_Witness ==
    /\ ret.valid /\ ret.rv = -1 /\ call.nintr >= 1
    /\ last_dmi # DmiZero /\ last_dmi # ret.cmd

\* TRUE when log entry i is a read of abstractcs that the transport answered.
LogCsRead(i) == dm.log[i][1] = "r" /\ dm.log[i][2] = 22 /\ dm.log[i][4] = 0

\* The busy bit of the abstractcs value of log entry i.
LogCsBusy(i) == (dm.log[i][3] \div 4096) % 2

\* C28: in every run of rvdbg_abstract_command_run the first access is the
\* write of the command word to abstractcmd (0x17); every abstractcs (0x16)
\* read follows that write or an abstractcs read answered busy; an abstractcs
\* read answered busy is followed by another abstractcs read; the cmderr that
\* is cleared, retried on or returned comes from an abstractcs value whose
\* busy bit is 0.
C28_CommandThenPollUntilIdle ==
    (pc = "done" /\ ret.fn = "abstract_command_run") =>
        /\ Len(dm.log) >= 1
        /\ dm.log[1][1] = "w" /\ dm.log[1][2] = 23 /\ dm.log[1][3] = call.command
        /\ \A i \in 1 .. Len(dm.log) :
              /\ (dm.log[i][1] = "r") =>
                    /\ dm.log[i][2] = 22
                    /\ i > 1
                    /\ \/ dm.log[i - 1] = <<"w", 23, call.command, 0>>
                       \/ LogCsRead(i - 1) /\ LogCsBusy(i - 1) = 1
              /\ (LogCsRead(i) /\ LogCsBusy(i) = 1) =>
                    /\ i + 1 <= Len(dm.log)
                    /\ dm.log[i + 1][1] = "r" /\ dm.log[i + 1][2] = 22
              /\ (dm.log[i][1] = "w" /\ dm.log[i][2] = 22) =>
                    /\ i > 1
                    /\ LogCsRead(i - 1) /\ LogCsBusy(i - 1) = 0
                    /\ (dm.log[i - 1][3] \div 256) % 8 # 0
              /\ (i > 1 /\ dm.log[i][1] = "w" /\ dm.log[i][2] = 23) =>
                    /\ i > 2
                    /\ dm.log[i - 1] = <<"w", 22, 1792, 0>>
                    /\ LogCsRead(i - 2) /\ LogCsBusy(i - 2) = 0
                    /\ (dm.log[i - 2][3] \div 256) % 8 = 1
        /\ ret.rv = 0 =>
              /\ LogCsRead(Len(dm.log)) /\ LogCsBusy(Len(dm.log)) = 0
              /\ (dm.log[Len(dm.log)][3] \div 256) % 8 = 0
        /\ ret.rv > 0 =>
              /\ Len(dm.log) >= 3
              /\ LogCsRead(Len(dm.log) - 1) /\ LogCsBusy(Len(dm.log) - 1) = 0
              /\ (dm.log[Len(dm.log) - 1][3] \div 256) % 8 = ret.rv

\* C28 witness: the command was still executing at the first abstractcs read,
\* the second read was answered not busy with cmderr 3, and that cmderr was
\* returned.
C28_Witness ==
    /\ pc = "done" /\ ret.fn = "abstract_command_run" /\ ret.rv = 3
    /\ Len(dm.log) = 4
    /\ dm.log[1] = <<"w", 23, call.command, 0>>
    /\ LogCsRead(2) /\ LogCsBusy(2) = 1
    /\ LogCsRead(3) /\ LogCsBusy(3) = 0

(***************************************************************************)
(* SpecSingle: one call of rvdbg_read_single_reg or rvdbg_write_single_reg  *)
(* with autoexec state NONE, on a target whose commands may be answered     *)
(* busy or with a cmderr and whose DMI accesses may fail.                   *)
(***************************************************************************)
InitSingle ==
    /\ \E regs \in {Regs1, Regs2} :
          /\ dmi = HandleFor(FALSE, FALSE)
          /\ dm = DmFor(FALSE, regs)
    /\ last_dmi = DmiZero
    /\ tap = Tap0
    /\ pc = "start"
    /\ call = [fn |-> "none"]
    /\ ret = RetAbs0
    /\ trace = <<>>
    /\ ghost = Ghost0

ReadSingleReg ==
    /\ pc = "start"
    /\ \E reg \in RegNos, s \in FaultScripts, f \in -1 .. MaxFail :
          LET d0 == [dm EXCEPT !.script = s, !.dmifail = f]
          IN  \E r \in {rvdbg_read_single_reg(d0, reg, "NONE")} :
              /\ dm' = r.dm
              /\ ret' = [fn |-> "read_single_reg", rv |-> r.rv, out |-> r.out]
              /\ call' = [fn |-> "read_single_reg", reg |-> reg, dm0 |-> d0]
    /\ pc' = "done"
    /\ UNCHANGED <<dmi, last_dmi, tap, trace, ghost>>

WriteSingleReg ==
    /\ pc = "start"
    /\ \E reg \in RegNos, value \in Words32, s \in FaultScripts, f \in -1 .. MaxFail :
          LET d0 == [dm EXCEPT !.script = s, !.dmifail = f]
          IN  \E r \in {rvdbg_write_single_reg(d0, reg, value, "NONE")} :
              /\ dm' = r.dm
              /\ ret' = [fn |-> "write_single_reg", rv |-> r.rv]
              /\ call' = [fn |-> "write_single_reg", reg |-> reg, value |-> value,
                          dm0 |-> d0]
    /\ pc' = "done"
    /\ UNCHANGED <<dmi, last_dmi, tap, trace, ghost>>

NextSingle == ReadSingleReg \/ WriteSingleReg

SpecSingle == InitSingle /\ [][NextSingle]_vars

\* The ordering of the DMI accesses of a single-register write: data0 first,
\* then the access_register command with transfer = 1, write = 1, aarsize = 2.
WriteOrder ==
    (pc = "done" /\ ret.fn = "write_single_reg") =>
        /\ dm.log[1][1] = "w" /\ dm.log[1][2] = 4 /\ dm.log[1][3] = call.value
        /\ dm.log[1][4] = 0 =>
              /\ Len(dm.log) >= 2
              /\ dm.log[2][1] = "w" /\ dm.log[2][2] = 23
              /\ dm.log[2][3] = 2 * Pow2(20) + Pow2(17) + Pow2(16) + call.reg
        /\ \A i \in 2 .. Len(dm.log) : ~(dm.log[i][1] = "w" /\ dm.log[i][2] = 4)

\* The ordering of the DMI accesses of a single-register read: the command
\* with transfer = 1, write = 0, aarsize = 2 first; data0 is read once, last,
\* right after an abstractcs value with busy = 0 and cmderr = 0; a command
\* that ended with a non-zero cmderr gives -1, no data0 read and no output.
ReadOrder ==
    (pc = "done" /\ ret.fn = "read_single_reg") =>
        /\ dm.log[1][1] = "w" /\ dm.log[1][2] = 23
        /\ dm.log[1][3] = 2 * Pow2(20) + Pow2(17) + call.reg
        /\ \A i \in 1 .. Len(dm.log) :
              (dm.log[i][1] = "r" /\ dm.log[i][2] = 4) =>
                 /\ i = Len(dm.log) /\ i > 1
                 /\ LogCsRead(i - 1) /\ LogCsBusy(i - 1) = 0
                 /\ (dm.log[i - 1][3] \div 256) % 8 = 0
        /\ (\E i \in 1 .. Len(dm.log) :
               LogCmderrRead(i) /\ (dm.log[i][3] \div 256) % 8 # 1) =>
              /\ ret.rv = -1 /\ ret.out = Unset
              /\ \A j \in 1 .. Len(dm.log) : ~(dm.log[j][1] = "r" /\ dm.log[j][2] = 4)
        /\ ret.rv = -1 => ret.out = Unset
        /\ ret.rv = 0 =>
              /\ dm.log[Len(dm.log)][1] = "r" /\ dm.log[Len(dm.log)][2] = 4
              /\ ret.out = dm.log[Len(dm.log)][3]

\* C29: with autoexec state NONE a single-register write has placed the value
\* in data0 (0x04) before it submits the access_register command (transfer = 1,
\* write = 1, aarsize = 32 bit); a single-register read submits the command
\* (transfer = 1, write = 0, aarsize = 32 bit) and reads data0 only after the
\* command completed with cmderr = 0; a command that ends with a non-zero
\* cmderr makes the read return -1 without a data0 read and without output.
C29_SingleRegOrder ==
    /\ WriteOrder
    /\ (pc = "done" /\ ret.fn = "write_single_reg" /\ ret.rv = 0) =>
          /\ dm.data0 = call.value
          /\ dm.regs[call.reg] = call.value
    /\ ReadOrder

\* The positions of the writes to abstractauto (0x18) in the call's DMI log.
AutoWrites == {i \in 1 .. Len(dm.log) : dm.log[i][1] = "w" /\ dm.log[i][2] = 24}

\* C30: when rvdbg_read_regs or rvdbg_write_regs has written a non-zero
\* abstractauto and no DMI access of the call failed, the last write to
\* abstractauto before it returns has the value 0, whether every register
\* access succeeded or one of them failed with a cmderr; with len <= 1 or
\* without support_autoexecdata the call writes abstractauto not at all.
C30_AutoexecDisarmed ==
    (pc = "done" /\ ret.fn \in {"read_regs", "write_regs"}) =>
        /\ (call.len <= 1 \/ ~dmi.support_autoexecdata) => AutoWrites = {}
        /\ (call.len > 1 /\ dmi.support_autoexecdata) =>
              /\ dm.log[1][1] = "w" /\ dm.log[1][2] = 24
              /\ dm.log[1][3] = ABSTRACTAUTO_SOME_PATTEN
        /\ ((\E i \in AutoWrites : dm.log[i][3] # 0)
              /\ \A i \in 1 .. Len(dm.log) : ~LogFailed(i)) =>
              /\ Len(dm.log) \in AutoWrites
              /\ dm.log[Len(dm.log)][3] = 0
              /\ dm.autoexecdata = 0

\* C30 witness: autoexec was armed, the first register access ended with a
\* cmderr, no DMI access failed, the call returned -1 and its last DMI access
\* is the write of 0 to abstractauto.
C30_Witness ==
    /\ pc = "done" /\ ret.fn \in {"read_regs", "write_regs"} /\ ret.rv = -1
    /\ \A i \in 1 .. Len(dm.log) : ~LogFailed(i)
    /\ dm.log[1] = <<"w", 24, ABSTRACTAUTO_SOME_PATTEN, 0>>
    /\ \E i \in 1 .. Len(dm.log) : LogCmderrRead(i)
    /\ dm.log[Len(dm.log)] = <<"w", 24, 0, 0>>

\* The indices at which the hart's GPR backup buffer differs from its content
\* before the call (all zero in InitProgbuf).
BackupTouched == {i \in DOMAIN dmi.gp_register_backup : dmi.gp_register_backup[i] # 0}

\* The larger of the two argument counts of the call.
LargerLen ==
    IF call.argin_len > call.argout_len THEN call.argin_len ELSE call.argout_len

\* C31: rvdbg_progbuf_exec with max(argin_len, argout_len) > 31 returns -1
\* with no DMI access issued and with args and the GPR backup buffer as they
\* were; with max(argin_len, argout_len) <= 31 the backup buffer is accessed
\* at indices below that maximum only, within 0..30, and every register
\* transfer of the call addresses one of x1..x31.
C31_BackupBounded ==
    (pc = "done" /\ ret.fn = "progbuf_exec") =>
        /\ LargerLen > 31 =>
              /\ ret.rv = -1
              /\ dm.log = <<>>
              /\ ret.args = call.args
              /\ BackupTouched = {}
        /\ LargerLen <= 31 =>
              /\ DOMAIN dmi.gp_register_backup = 0 .. 30
              /\ BackupTouched \subseteq 0 .. LargerLen - 1
              /\ \A i \in 1 .. Len(dm.log) :
                    (dm.log[i][1] = "w" /\ dm.log[i][2] = 23
                       /\ (dm.log[i][3] \div Pow2(17)) % 2 = 1) =>
                          dm.log[i][3] % Pow2(16) \in
                              HART_REG_GPR_BEGIN + 1 .. HART_REG_GPR_BEGIN + 31

\* C31 witness: a call with 31 argument registers was accepted and stored a
\* word at index 30, the last one of the backup buffer.
C31_Witness ==
    /\ pc = "done" /\ ret.fn = "progbuf_exec"
    /\ LargerLen = 31
    /\ 30 \in BackupTouched

\* The positions in the call's DMI log of the writes to abstractcmd (0x17)
\* whose command word has postexec (bit 18) set.
PostexecWrites ==
    {k \in 1 .. Len(dm.log) :
        dm.log[k][1] = "w" /\ dm.log[k][2] = 23 /\ (dm.log[k][3] \div Pow2(18)) % 2 = 1}

\* The number of answered accesses of kind op to data0 (0x04) before position k.
Data0Before(op, k) ==
    Cardinality({j \in 1 .. k - 1 :
                    dm.log[j][1] = op /\ dm.log[j][2] = 4 /\ dm.log[j][4] = 0})

\* C32: the command with which rvdbg_progbuf_exec runs the program buffer has
\* postexec = 1 and transfer = 0 and nothing else set; when it is submitted
\* no earlier DMI access of the call has failed, no earlier command has ended
\* with a cmderr other than busy, data0 has been read once per backed-up
\* register and written once per argument; a call whose backup read or
\* argument write failed has submitted no postexec command.
C32_PostexecAfterBackup ==
    (pc = "done" /\ ret.fn = "progbuf_exec") =>
        /\ \A k \in PostexecWrites :
              /\ dm.log[k][3] = Pow2(18)
              /\ \A j \in 1 .. k - 1 :
                    /\ ~LogFailed(j)
                    /\ LogCmderrRead(j) => (dm.log[j][3] \div 256) % 8 = 1
              /\ Data0Before("r", k) = LargerLen
              /\ Data0Before("w", k) = call.argin_len
        /\ LET rb == rvdbg_read_regs(call.dm0, dmi, HART_REG_GPR_BEGIN + 1,
                                     [i \in 0 .. 30 |-> 0], LargerLen)
               wa == rvdbg_write_regs(rb.dm, dmi, HART_REG_GPR_BEGIN + 1, call.args,
                                      call.argin_len)
           IN  (LargerLen <= 31 /\ (rb.rv < 0 \/ wa.rv < 0)) => PostexecWrites = {}

\* C32 witness: two registers were backed up and two arguments written, and
\* the postexec command followed them.
C32_Witness ==
    /\ pc = "done" /\ ret.fn = "progbuf_exec"
    /\ call.argin_len = 2 /\ call.argout_len = 1
    /\ PostexecWrites # {}
    /\ \A k \in PostexecWrites : Data0Before("r", k) = 2 /\ Data0Before("w", k) = 2

\* The number of hartsel write / dmstatus read pairs in the log of a
\* successful init: the accesses between the dmcontrol read-back at
\* position 10 and the last dmcontrol write.
ProbePairs == (Len(dm.log) - 11) \div 2

\* C33: on every successful init the accesses occur in this order: a dtmcs
\* scan that reads dtmcs; the dtmcs scan that writes dmihardreset (bit 17),
\* after which rvdbg_dmi_reset_jtag selects IR_DMI; the dmstatus read; the
\* nextdm read; the abstractcs read; the abstractauto pattern write, its
\* read-back and the write of zero; the dmcontrol write with all hartsel
\* bits set and its read-back; then one hartsel write / dmstatus read pair
\* per probed index 0, 1, 2, ... and the closing hartsel write.  No write to
\* abstractcmd and no write to a program buffer register is among them.
C33_InitOrder ==
    (pc = "done" /\ ret.fn = "dp_handler" /\ ret.stage = "init_ok") =>
        /\ Len(dm.log) >= 11
        /\ dm.log[1][1] = "dtmcs" /\ dm.log[1][2] = 16
        /\ dm.log[2] = <<"dtmcs", 16, 131072, 0>>
        /\ rvdbg_dmi_reset_jtag(TRUE)[Len(rvdbg_dmi_reset_jtag(TRUE))] = <<"ir", 17>>
        /\ dm.log[3][1] = "r" /\ dm.log[3][2] = 17
        /\ dm.log[4][1] = "r" /\ dm.log[4][2] = 29
        /\ dm.log[5][1] = "r" /\ dm.log[5][2] = 22
        /\ dm.log[6] = <<"w", 24, 2730, 0>>
        /\ dm.log[7][1] = "r" /\ dm.log[7][2] = 24
        /\ dm.log[8][1] = "w" /\ dm.log[8][2] = 24 /\ dm.log[8][3] % 4096 = 0
        /\ dm.log[9] = <<"w", 16, 1048575 * 64, 0>>
        /\ dm.log[10][1] = "r" /\ dm.log[10][2] = 16
        /\ Len(dm.log) = 11 + 2 * ProbePairs
        /\ \A k \in 0 .. ProbePairs - 1 :
              /\ dm.log[11 + 2 * k][1] = "w" /\ dm.log[11 + 2 * k][2] = 16
              /\ (dm.log[11 + 2 * k][3] \div 65536) % 1024 = k
              /\ dm.log[12 + 2 * k][1] = "r" /\ dm.log[12 + 2 * k][2] = 17
        /\ dm.log[Len(dm.log)][1] = "w" /\ dm.log[Len(dm.log)][2] = 16
        /\ dmi.num_harts <= ProbePairs /\ ProbePairs <= dmi.num_harts + 1
        /\ \A i \in 1 .. Len(dm.log) :
              /\ dm.log[i][4] = 0
              /\ ~(dm.log[i][1] = "w" /\ dm.log[i][2] = 23)
              /\ ~(dm.log[i][1] = "w" /\ dm.log[i][2] \in 32 .. 47)

\* C33 witness: a successful init that found two harts and probed a third
\* index.
C33_Witness ==
    /\ pc = "done" /\ ret.fn = "dp_handler" /\ ret.stage = "init_ok"
    /\ dmi.num_harts = 2
    /\ Len(dm.log) = 17

\* C34: after rvdbg_discover_harts has returned 0, harts[i].idx = i for every
\* i in 0 .. num_harts - 1.
C34_HartIndexRecorded ==
    (pc = "done" /\ ret.fn = "discover_harts" /\ ret.rv = 0) =>
        \A i \in 0 .. dmi.num_harts - 1 : dmi.harts[i].idx = i

(***************************************************************************)
(* SpecLegacy: dmi_write / dmi_read calls through rvdbg_dmi_low_access of   *)
(* src/target/rvdbg013_jtag.c, scan by scan.  Its rvdbg_dmi_reset leaves    *)
(* the TAP on IR_DTMCS and the callers select IR_DMI themselves; the rest   *)
(* of the engine is that of rvdbg_dmi_low_access_jtag.                      *)
(***************************************************************************)
\* The adapter operations of rvdbg_dmi_reset(dp, hard_reset).
rvdbg_dmi_reset(hard_reset) ==
    << <<"ir", IR_DTMCS>>,
       <<"dr32", IF hard_reset THEN DTMCS_DMIHARDRESET ELSE DTMCS_DMIRESET>> >>

\* default: jtag_dev_write_ir(dp->dev, IR_DMI); rvdbg_dmi_reset(dp, false); return -1;
LegacyFailOps == << <<"ir", IR_DMI>> >> \o rvdbg_dmi_reset(FALSE)

\* case DMISTAT_OP_INTERRUPTED: rvdbg_dmi_reset(dp, false);
\*     jtag_dev_write_ir(dp->dev, IR_DMI);
LegacyIntrOps == rvdbg_dmi_reset(FALSE) \o << <<"ir", IR_DMI>> >>

\* retry: jtag_dev_shift_dr(dp->dev, &dmi_ret, &dmi_cmd, 34 + abits);
\*        switch (DMI_GET_OP(dmi_ret)) { ... }
LegacyShift ==
    /\ pc = "retry"
    /\ LET dmi_ret == TapCapture(tap)
           t1 == TapUpdate(tap, call.dmi_cmd, call.tag, dmi.abits)
           arm == DmiSwitch(DMI_GET_OP(dmi_ret))
           tr == Append(trace, DmiScan(call.dmi_cmd))
       IN  /\ arm = "intr" => call.nintr < MaxIntr
           /\ IF arm = "intr" THEN
                 /\ tap' = t1
                 /\ trace' = tr
                 /\ pc' = "intr"
                 /\ call' = [call EXCEPT !.nintr = @ + 1]
                 /\ UNCHANGED <<last_dmi, ret, ghost>>
              ELSE IF arm = "ok" THEN
                 /\ tap' = t1
                 /\ last_dmi' = StoreLastDmi(call.dmi_cmd)
                 /\ ghost' = [ghost EXCEPT !.last_tag = call.tag,
                                            !.acked = IF call.fn = "write"
                                                      THEN @ \cup {call.tag} ELSE @]
                 /\ LowAccessReturn(0, dmi_ret, tr)
              ELSE
                 /\ tap' = TapRun(t1, LegacyFailOps)
                 /\ LowAccessReturn(-1, dmi_ret, tr \o LegacyFailOps)
                 /\ UNCHANGED <<last_dmi, ghost>>
    /\ UNCHANGED <<dmi, dm>>

LegacyIntrReset ==
    /\ pc = "intr"
    /\ tap' = TapRun(tap, LegacyIntrOps)
    /\ trace' = trace \o LegacyIntrOps
    /\ pc' = "replay"
    /\ UNCHANGED <<dmi, last_dmi, dm, call, ret, ghost>>

NextLegacy ==
    \/ CallDmiWrite
    \/ CallDmiRead
    \/ LegacyShift
    \/ LegacyIntrReset
    \/ LowAccessReplay
    \/ DmComplete

SpecLegacy == InitDmi /\ [][NextLegacy]_vars

\* C35: in rvdbg_dmi_low_access of src/target/rvdbg013_jtag.c the TAP
\* instruction register holds IR_DMI whenever a DMI payload is about to be
\* shifted, and also when an access has returned -1, so that the next access
\* shifts the DMI register.
C35_IrIsDmiAtEveryShift ==
    /\ pc \in {"retry", "replay"} => tap.ir = 17
    /\ (pc = "idle" /\ ret.valid /\ ret.rv = -1) => tap.ir = 17

(***************************************************************************)
(* SpecSeq: the engine of SpecDmi with one more dmi_write / dmi_read call   *)
(* in a behaviour, so that a call can follow a call that returned -1.       *)
(***************************************************************************)
MaxSeqCalls == MaxCalls + 1

InitSeq ==
    /\ \E i \in IdleVals : dmi = [Handle0 EXCEPT !.abits = 7, !.idle = i, !.debug_version = 1]
    /\ last_dmi = DmiZero
    /\ tap = Tap0
    /\ dm = Dm0
    /\ pc = "idle"
    /\ call = [fn |-> "none", phase |-> 0, dmi_data_out |-> FALSE, dmi_cmd |-> DmiZero,
               orig |-> DmiZero, tag |-> 0, addr |-> 0, nintr |-> 0, data |-> Unset]
    /\ ret = NoRet
    /\ trace = <<>>
    /\ ghost = [Ghost0 EXCEPT !.applied = [t \in 0 .. MaxSeqCalls |-> 0]]

\* static int rvdbg_dmi_write(dmi, addr, data)
SeqDmiWrite ==
    /\ pc = "idle"
    /\ ghost.ncalls < MaxSeqCalls
    /\ \E addr \in DmiAddrs, data \in DmiData :
         LowAccessEnter("write", FALSE, WritePayload(addr, data), ghost.ncalls + 1, addr)
    /\ ghost' = [ghost EXCEPT !.ncalls = @ + 1]
    /\ UNCHANGED <<dmi, last_dmi, tap, dm>>

\* static int rvdbg_dmi_read(dmi, addr, data): the first low access (READ)
SeqDmiRead ==
    /\ pc = "idle"
    /\ ghost.ncalls < MaxSeqCalls
    /\ \E addr \in DmiAddrs :
         LowAccessEnter("read", FALSE, ReadPayload(addr), ghost.ncalls + 1, addr)
    /\ ghost' = [ghost EXCEPT !.ncalls = @ + 1]
    /\ UNCHANGED <<dmi, last_dmi, tap, dm>>

NextSeq ==
    \/ SeqDmiWrite
    \/ SeqDmiRead
    \/ LowAccessShift
    \/ LowAccessIntrReset
    \/ LowAccessReplay
    \/ DmComplete

SpecSeq == InitSeq /\ [][NextSeq]_vars

\* C36: every dmi_write whose call returned 0 has been applied by the Debug
\* Module by the time a later dmi_write or dmi_read on the same handle
\* returns 0.
C36_AckedWriteApplied ==
    (pc = "idle" /\ ret.valid /\ ret.done /\ ret.rv = 0) =>
        \A t \in ghost.acked : t < ghost.ncalls => ghost.applied[t] >= 1

\* C37: for every dtmcs value the handler accepts, a DMI scan shifts at most
\* 64 bits: when the handler has issued a DMI access, 34 + abits <= 64.
C37_ScanFitsBuffers ==
    (pc = "done" /\ ret.fn = "dp_handler" /\ DmiTraffic(dm.log) # {}) =>
        DMI_BASE_BIT_COUNT + dmi.abits <= 64


(***************************************************************************)
(* SpecFair: the loops of SpecLive and, in the behaviours whose trace is    *)
(* "regs", the loop of rvdbg_read_regs and rvdbg_write_regs, one register   *)
(* per step.  The engine's steps are weakly fair, as in SpecLive; what the  *)
(* target is assumed to do is stated by TargetSettles.                      *)
(***************************************************************************)
InitFair ==
    \/ InitLive
    \/ /\ \E i \in IdleVals : dmi = [HandleFor(TRUE, FALSE) EXCEPT !.idle = i]
       /\ last_dmi = DmiZero
       /\ tap = Tap0
       /\ dm = Forget(DmFor(TRUE, Regs1))
       /\ pc = "idle"
       /\ call = [fn |-> "none", dmi_cmd |-> DmiZero, command |-> 0, cmderror |-> 0]
       /\ ret = LiveRet0
       /\ trace = <<"regs">>
       /\ ghost = Ghost0

\* A caller enters rvdbg_read_regs or rvdbg_write_regs; the statements up to
\* the for loop.  The target fails the arming write or not (f).
LiveRegsCall ==
    /\ pc = "idle"
    /\ trace = <<"regs">>
    /\ \E fn \in {"read_regs", "write_regs"}, reg \in RegBases, len \in 0 .. MaxLen,
          f \in {-1, 0} :
          \E a \in {AutoexecArm([dm EXCEPT !.dmifail = f], dmi, len)} :
              /\ dm' = Forget(a.dm)
              /\ call' = [fn |-> fn, dmi_cmd |-> DmiZero, command |-> 0, cmderror |-> 0,
                          reg |-> reg, len |-> len, i |-> 0, astate |-> a.astate,
                          err |-> 0]
              /\ IF a.rv < 0
                 THEN pc' = "idle" /\ ret' = [fn |-> fn, rv |-> -1]
                 ELSE pc' = "regs_loop" /\ ret' = LiveRet0
    /\ UNCHANGED <<dmi, last_dmi, tap, trace, ghost>>

\* The access of one iteration of for (i = 0; i < len; i++): the target
\* chooses how a command executed by it ends (s) and whether a DMI access of
\* it fails (f).
LiveSingleReg(d, s, f) ==
    LET d0 == [d EXCEPT !.script = <<s>>, !.dmifail = f]
    IN  IF call.fn = "read_regs"
        THEN rvdbg_read_single_reg(d0, U16(call.reg + call.i), call.astate)
        ELSE rvdbg_write_single_reg(d0, U16(call.reg + call.i), 100 + call.i, call.astate)

\* for (i = 0; i < len; i++) { if (rvdbg_.._single_reg(...) < 0) { err = -1;
\*     break; } if (astate == AUTOEXEC_STATE_INIT) astate = AUTOEXEC_STATE_CONT; }
LiveRegsLoop ==
    /\ pc = "regs_loop"
    /\ IF call.i >= call.len
       THEN /\ pc' = "regs_reset"
            /\ UNCHANGED <<dm, call>>
       ELSE \E s \in RegSteps, f \in {-1, 0} :
               \E r \in {LiveSingleReg(dm, s, f)} :
                  /\ dm' = Forget(r.dm)
                  /\ IF r.rv < 0
                     THEN /\ call' = [call EXCEPT !.err = -1]
                          /\ pc' = "regs_reset"
                     ELSE /\ call' = [call EXCEPT
                                        !.i = @ + 1,
                                        !.astate = IF @ = "INIT" THEN "CONT" ELSE @]
                          /\ pc' = "regs_loop"
    /\ UNCHANGED <<dmi, last_dmi, tap, ret, trace, ghost>>

\* if (astate != AUTOEXEC_STATE_NONE) { ... } return err;
LiveRegsReset ==
    /\ pc = "regs_reset"
    /\ \E f \in {-1, 0} :
          \E z \in {AutoexecReset([dm EXCEPT !.dmifail = f], call.astate, call.err)} :
              /\ dm' = Forget(z.dm)
              /\ ret' = [fn |-> call.fn, rv |-> z.rv]
    /\ pc' = "idle"
    /\ UNCHANGED <<dmi, last_dmi, tap, call, trace, ghost>>

NextFair ==
    \/ LiveLowAccess
    \/ LiveShift
    \/ LiveIntrReset
    \/ LiveReplay
    \/ LiveDmComplete
    \/ LiveRunCommand
    \/ LiveAcrWrite
    \/ LiveAcrPoll
    \/ LiveAcrClear
    \/ LiveRegsCall
    \/ LiveRegsLoop
    \/ LiveRegsReset

SpecFair ==
    /\ InitFair
    /\ [][NextFair]_vars
    /\ WF_vars(LiveShift) /\ WF_vars(LiveIntrReset) /\ WF_vars(LiveReplay)
    /\ WF_vars(LiveAcrWrite) /\ WF_vars(LiveAcrPoll) /\ WF_vars(LiveAcrClear)
    /\ WF_vars(LiveRegsLoop) /\ WF_vars(LiveRegsReset)
    /\ WF_vars(LiveDmComplete)

\* The answers of the target to the engine's scans and polls.
AnsweredInterrupted ==
    LiveShift /\ TapStatus(tap) = DMISTAT_OP_INTERRUPTED
AnsweredOtherwise ==
    LiveShift /\ TapStatus(tap) # DMISTAT_OP_INTERRUPTED
ReportedBusy == LiveAcrPoll /\ pc' = "acr_poll"
ReportedIdle == LiveAcrPoll /\ pc' # "acr_poll"
ReportedCmderrBusy ==
    LiveAcrPoll /\ pc' = "acr_clear" /\ call'.cmderror = ABSTRACTCMD_ERR_BUSY
ReportedOtherCmderr ==
    LiveAcrPoll /\ pc' # "acr_poll"
                /\ ~(pc' = "acr_clear" /\ call'.cmderror = ABSTRACTCMD_ERR_BUSY)

\* The target answers interrupted only finitely often in a row, a command is
\* reported busy only finitely often in a row, and so is cmderr = busy.
TargetSettles ==
    /\ ([]<><<AnsweredOtherwise>>_vars) \/ (<>[][~AnsweredInterrupted]_vars)
    /\ ([]<><<ReportedIdle>>_vars) \/ (<>[][~ReportedBusy]_vars)
    /\ ([]<><<ReportedOtherCmderr>>_vars) \/ (<>[][~ReportedCmderrBusy]_vars)

\* C38: against a target that settles, every DMI access, every abstract
\* command and every rvdbg_read_regs / rvdbg_write_regs call that has been
\* entered returns.
C38_CallsReturnWhenTargetSettles == TargetSettles => ((pc # "idle") ~> (pc = "idle"))

\* A batched register call in autoexec continuation mode has returned 0.
C38_Witness ==
    /\ pc = "idle"
    /\ ret.fn \in {"read_regs", "write_regs"}
    /\ ret.rv = 0
    /\ call.astate = "CONT"
    /\ call.i = MaxLen


(***************************************************************************)
(* SpecRegsSeq: up to MaxRegCalls calls of rvdbg_read_regs and              *)
(* rvdbg_write_regs, one after the other against the same Debug Module, so  *)
(* that a call is also entered with what an earlier, failed call left       *)
(* behind.  dm.log holds the DMI accesses of the latest call.               *)
(***************************************************************************)
MaxRegCalls == 2

\* The Debug Module at the entry of a call: the target's behaviour during
\* the call is chosen (s, f) and the log of the call is empty.
EnterCall(d, s, f) == [d EXCEPT !.script = s, !.dmifail = f, !.log = <<>>, !.nexec = 0]

SeqReadRegs ==
    /\ pc \in {"start", "done"}
    /\ ghost.ncalls < MaxRegCalls
    /\ \E len \in 0 .. MaxLen, s \in FaultScripts, f \in -1 .. MaxFail :
          LET d0 == EnterCall(dm, s, f)
              reg == HART_REG_GPR_BEGIN + 1
              values == [i \in 0 .. len - 1 |-> Unset]
          IN  \E r \in {rvdbg_read_regs(d0, dmi, reg, values, len)} :
              /\ dm' = r.dm
              /\ ret' = [fn |-> "read_regs", rv |-> r.rv, values |-> r.values]
              /\ call' = [fn |-> "read_regs", reg |-> reg, len |-> len, dm0 |-> d0,
                          values |-> values]
    /\ pc' = "done"
    /\ ghost' = [ghost EXCEPT !.ncalls = @ + 1]
    /\ UNCHANGED <<dmi, last_dmi, tap, trace>>

SeqWriteRegs ==
    /\ pc \in {"start", "done"}
    /\ ghost.ncalls < MaxRegCalls
    /\ \E len \in 0 .. MaxLen, s \in FaultScripts, f \in -1 .. MaxFail :
          LET d0 == EnterCall(dm, s, f)
              reg == HART_REG_GPR_BEGIN + 1
              values == [i \in 0 .. len - 1 |-> 100 + i]
          IN  \E r \in {rvdbg_write_regs(d0, dmi, reg, values, len)} :
              /\ dm' = r.dm
              /\ ret' = [fn |-> "write_regs", rv |-> r.rv]
              /\ call' = [fn |-> "write_regs", reg |-> reg, len |-> len, dm0 |-> d0,
                          values |-> values]
    /\ pc' = "done"
    /\ ghost' = [ghost EXCEPT !.ncalls = @ + 1]
    /\ UNCHANGED <<dmi, last_dmi, tap, trace>>

NextRegsSeq ==
    \/ SeqReadRegs
    \/ SeqWriteRegs

SpecRegsSeq == InitRegs /\ [][NextRegsSeq]_vars

\* The cmderr field of the abstractcs value of log entry i.
LogCsCmderr(i) == (dm.log[i][3] \div 256) % 8

\* A command of the latest call ended with a cmderr that is no busy.
CommandFaulted ==
    \E i \in DOMAIN dm.log :
        /\ LogCsRead(i)
        /\ LogCsBusy(i) = 0
        /\ LogCsCmderr(i) \notin {ABSTRACTCMD_ERR_NONE, ABSTRACTCMD_ERR_BUSY}

\* C39: rvdbg_read_regs and rvdbg_write_regs return -1 when a register access
\* of theirs ended at the Debug Module with a cmderr, and when they return 0
\* the cmderr field of the Debug Module is 0.
C39_RegErrorsReported ==
    (pc = "done" /\ ret.fn \in {"read_regs", "write_regs"}) =>
        /\ CommandFaulted => ret.rv = -1
        /\ ret.rv = 0 => dm.cmderr = ABSTRACTCMD_ERR_NONE


(***************************************************************************)
(* SpecHartsel: the hartsel field macros applied to a dmcontrol word t and  *)
(* a hart selection s of up to 20 bits.                                     *)
(***************************************************************************)
\* #define DMCONTROL_SET_HARTSEL(t, s) do { t &= ~(0xfffff << 6);
\*     t |= (s & 0x3ff) << 16; t |= (s & (0x3ff << 10) >> 4); } while(0)
\* on any t: bits 25:6 of t are cleared, then the two fields are ORed in.
SetHartselIn(t, s) == (t - Bits(t, 6, 20) * Pow2(6)) + DMCONTROL_SET_HARTSEL(s)

\* Hart selections: the small ones, every single bit, and values with bits
\* on both sides of bit 10.
HartselValues ==
    (0 .. 80) \cup {Pow2(k) : k \in 0 .. 19} \cup {Pow2(k) - 1 : k \in 0 .. 20}
              \cup {1025, 1088, 65535 + 64, 524288 + 512 + 1}

\* dmcontrol words: 0, dmactive alone, and every bit of a 31-bit word set.
DmcontrolWords == {0, 1, 2147483647}

InitHartsel ==
    /\ dmi = Handle0
    /\ last_dmi = DmiZero
    /\ tap = Tap0
    /\ dm = Dm0
    /\ pc = "start"
    /\ \E t \in DmcontrolWords, s \in HartselValues :
          call = [fn |-> "hartsel", t |-> t, s |-> s]
    /\ ret = RetAbs0
    /\ trace = <<>>
    /\ ghost = Ghost0

\* DMCONTROL_SET_HARTSEL(t, s); then DMCONTROL_GET_HARTSEL(t).
ApplyHartsel ==
    /\ pc = "start"
    /\ ret' = [fn |-> "hartsel", rv |-> 0,
               word |-> SetHartselIn(call.t, call.s),
               hartsel |-> DMCONTROL_GET_HARTSEL(SetHartselIn(call.t, call.s))]
    /\ pc' = "done"
    /\ UNCHANGED <<dmi, last_dmi, tap, dm, call, trace, ghost>>

NextHartsel ==
    \/ ApplyHartsel

SpecHartsel == InitHartsel /\ [][NextHartsel]_vars

\* C40: DMCONTROL_GET_HARTSEL of the word built by DMCONTROL_SET_HARTSEL(0, s)
\* is s for every 20-bit s, and DMCONTROL_SET_HARTSEL leaves the bits of the
\* word outside 25:6 as they were.
C40_HartselRoundTrip ==
    (pc = "done" /\ ret.fn = "hartsel") =>
        /\ call.t = 0 => ret.hartsel = call.s
        /\ ret.word % Pow2(6) = call.t % Pow2(6)
        /\ ret.word \div Pow2(26) = call.t \div Pow2(26)

====
